---- MODULE Spec2Model ----
(***************************************************************************)
(* Shared solar generation allocated among residences over discrete        *)
(* periods: the proportional and priority heuristics (Projeto/cenario1.py, *)
(* Projeto/__cenario1.py, Projeto/cenario2.py), the optimisation scenarios *)
(* (Projeto/cenario2 copy.py, Projeto/cenario3 copy.py), the sequential    *)
(* scenario and the binary covering model of app2.py, and the multi-month  *)
(* consortium model of app.py with its credit ledger.                      *)
(*                                                                         *)
(* Energies are exact rationals <<numerator, denominator>>.  A solver is   *)
(* an external collaborator: its answer is a nondeterministic choice among *)
(* the assignments that satisfy every constraint of the model (and, where  *)
(* the scenario returns an optimum, maximise its objective), with every    *)
(* variable ranging over a bounded lattice.                                *)
(***************************************************************************)
EXTENDS Integers, Sequences, FiniteSets, TLC

VARIABLES
    prog,        \* which program of the repository runs
    pc,          \* the position reached in it
    params,      \* its input data
    status,      \* the status of the last solve
    sol,         \* the variable values the solver left
    aloc,        \* result matrix: solar energy allocated
    rede,        \* result matrix: grid draw
    excedente,   \* result vector: surplus per hour
    resultados,  \* the results structure of app.py and app2.py
    modelos,     \* the models configurar_modelo_solar built, with their solves
    excecao,     \* the exception that ended the program, if one did
    laco         \* the loop variables of analise_sensibilidade

vars == <<prog, pc, params, status, sol, aloc, rede, excedente, resultados,
          modelos, excecao, laco>>

(***************************************************************************)
(* Bounds of the model.                                                    *)
(***************************************************************************)
NumRes == 2

NumHoras == 2

\* the months of the consortium horizon (T)
NumMeses == 2

\* the solar units on offer (config['M'])
NumUnidades == 2

Residencias == 0..(NumRes - 1)

Horas == 0..(NumHoras - 1)

Nenhum == <<>>

(***************************************************************************)
(* Exact rational arithmetic (numpy floats, taken without rounding).       *)
(***************************************************************************)
RECURSIVE MDC(_, _)
MDC(a, b) == IF b = 0 THEN a ELSE MDC(b, a % b)

Abs(n) == IF n < 0 THEN -n ELSE n

\* the rational n / d (d > 0) in lowest terms
Rat(n, d) ==
    IF n = 0 THEN <<0, 1>>
    ELSE IF d = 1 THEN <<n, 1>>
    ELSE <<n \div MDC(Abs(n), d), d \div MDC(Abs(n), d)>>

Zero == <<0, 1>>

RInt(n) == <<n, 1>>

RAdd(a, b) == Rat(a[1] * b[2] + b[1] * a[2], a[2] * b[2])

RSub(a, b) == Rat(a[1] * b[2] - b[1] * a[2], a[2] * b[2])

RMul(a, b) == Rat(a[1] * b[1], a[2] * b[2])

\* a / b for b > 0
RDiv(a, b) == Rat(a[1] * b[2], a[2] * b[1])

RLeq(a, b) == a[1] * b[2] <= b[1] * a[2]

RLt(a, b) == a[1] * b[2] < b[1] * a[2]

RMin(a, b) == IF RLeq(a, b) THEN a ELSE b

RMax(a, b) == IF RLeq(a, b) THEN b ELSE a

\* the sum of f[k] over the interval lo..hi
RECURSIVE RSum(_, _, _)
RSum(f, lo, hi) == IF hi < lo THEN Zero ELSE RAdd(RSum(f, lo, hi - 1), f[hi])

(***************************************************************************)
(* Dependent products: the functions f on 0..n-1 with f[k] \in S[k].       *)
(***************************************************************************)
RECURSIVE Produto(_, _)
Produto(S, n) ==
    IF n = 0 THEN {<<>>}
    ELSE {f @@ ((n - 1) :> v) : f \in Produto(S, n - 1), v \in S[n - 1]}

\* the largest element of a non-empty set of rationals
RMaximo(S) == CHOOSE m \in S : \A k \in S : RLeq(k, m)

(***************************************************************************)
(* Inputs of the Projeto scenarios (the params dictionary).                *)
(***************************************************************************)
DemandaValores == {0, 1, 2}

GeracaoValores == {0, 2, 5}

EficienciaValores == {Rat(90, 100), Rat(95, 100)}

Res(p) == 0..(p.num_residencias - 1)

Hrs(p) == 0..(p.num_horas - 1)

ParamsHeur ==
    [num_residencias : {NumRes},
     num_horas : {NumHoras},
     demanda_residencias : [Residencias -> [Horas -> {RInt(d) : d \in DemandaValores}]],
     geracao_solar : [Horas -> {RInt(g) : g \in GeracaoValores}],
     eficiencia_rede : [Horas -> EficienciaValores]]

\* the sum of f[i] over the residences, np.sum(...[:, t])
SomaRes(p, f) == RSum(f, 0, p.num_residencias - 1)

\* the sum of f[t] over the hours
SomaHoras(p, f) == RSum(f, 0, p.num_horas - 1)

\* the hourly step without the grid complement of line 34: rede stays zero
\* the hourly step without line 30: the surplus of the hour is never recorded
C1SimplesHoraSemExcedente(p, t) ==
    LET dem == [i \in Res(p) |-> p.demanda_residencias[i][t]]
        total_demanda == SomaRes(p, dem)
        energia_a_alocar == RMin(p.geracao_solar[t], total_demanda)
        alocT == IF RLt(Zero, total_demanda)
                 THEN [i \in Res(p) |-> RMul(RDiv(dem[i], total_demanda), energia_a_alocar)]
                 ELSE [i \in Res(p) |-> Zero]
    IN  [aloc |-> alocT,
         rede |-> [i \in Res(p) |-> RMax(Zero, RSub(dem[i], alocT[i]))],
         excedente |-> Zero]

\* the hourly step without the min of line 28: the whole generation is shared out
C1SimplesHoraSemLimite(p, t) ==
    LET dem == [i \in Res(p) |-> p.demanda_residencias[i][t]]
        total_demanda == SomaRes(p, dem)
        alocT == IF RLt(Zero, total_demanda)
                 THEN [i \in Res(p) |->
                          RMul(RDiv(dem[i], total_demanda), p.geracao_solar[t])]
                 ELSE [i \in Res(p) |-> Zero]
    IN  [aloc |-> alocT,
         rede |-> [i \in Res(p) |-> RMax(Zero, RSub(dem[i], alocT[i]))],
         excedente |-> IF RLt(Zero, total_demanda)
                       THEN RMax(Zero, RSub(p.geracao_solar[t], total_demanda))
                       ELSE Zero]

C1SimplesHoraSemRede(p, t) ==
    LET dem == [i \in Res(p) |-> p.demanda_residencias[i][t]]
        total_demanda == SomaRes(p, dem)
        energia_a_alocar == RMin(p.geracao_solar[t], total_demanda)
    IN  [aloc |-> IF RLt(Zero, total_demanda)
                  THEN [i \in Res(p) |-> RMul(RDiv(dem[i], total_demanda), energia_a_alocar)]
                  ELSE [i \in Res(p) |-> Zero],
         rede |-> [i \in Res(p) |-> Zero],
         excedente |-> IF RLt(Zero, total_demanda)
                       THEN RMax(Zero, RSub(p.geracao_solar[t], total_demanda))
                       ELSE Zero]

(***************************************************************************)
(* cenario_1_proporcional_simples: one hour of the loop.                   *)
(***************************************************************************)
C1SimplesHora(p, t) ==
    LET dem == [i \in Res(p) |-> p.demanda_residencias[i][t]]
        total_demanda == SomaRes(p, dem)
        proporcao == [i \in Res(p) |-> RDiv(dem[i], total_demanda)]
        energia_a_alocar == RMin(p.geracao_solar[t], total_demanda)
        alocT == IF RLt(Zero, total_demanda)
                 THEN [i \in Res(p) |-> RMul(proporcao[i], energia_a_alocar)]
                 ELSE [i \in Res(p) |-> Zero]
        excT == IF RLt(Zero, total_demanda)
                THEN RMax(Zero, RSub(p.geracao_solar[t], total_demanda))
                ELSE Zero
    IN  [aloc |-> alocT,
         rede |-> [i \in Res(p) |-> RMax(Zero, RSub(dem[i], alocT[i]))],
         excedente |-> excT]

(***************************************************************************)
(* cenario_1_proporcional: the variant that applies the grid efficiency.   *)
(***************************************************************************)
C1ProporcionalHora(p, t) ==
    LET dem == [i \in Res(p) |-> p.demanda_residencias[i][t]]
        total_demanda == SomaRes(p, dem)
        proporcao == [i \in Res(p) |-> RDiv(dem[i], total_demanda)]
        energia_disponivel == RMul(p.geracao_solar[t], p.eficiencia_rede[t])
        energia_a_alocar == RMin(energia_disponivel, total_demanda)
        alocT == IF RLt(Zero, total_demanda)
                 THEN [i \in Res(p) |-> RMul(proporcao[i], energia_a_alocar)]
                 ELSE [i \in Res(p) |-> Zero]
        excT == IF RLt(Zero, total_demanda)
                THEN RMax(Zero, RSub(energia_disponivel, total_demanda))
                ELSE Zero
    IN  [aloc |-> alocT,
         rede |-> [i \in Res(p) |-> RMax(Zero, RSub(dem[i], alocT[i]))],
         excedente |-> excT]

(***************************************************************************)
(* cenario_2_priorizacao_tarifa_social: weights 5.0 (even index) and 1.0.  *)
(***************************************************************************)
pesos_prioridade(p) == [i \in Res(p) |-> IF i % 2 = 0 THEN RInt(5) ELSE RInt(1)]

\* numpy's nan, the value of 0.0 / 0.0: a pair whose denominator is zero
NaN == <<0, 0>>

\* the hourly step without the test of line 31: the division always happens,
\* and with a zero total the quotient, the product and np.maximum are all nan
C2PriorizacaoHoraSemTeste(p, t) ==
    LET dem == [i \in Res(p) |-> p.demanda_residencias[i][t]]
        demanda_ponderada == [i \in Res(p) |-> RMul(dem[i], pesos_prioridade(p)[i])]
        total_demanda_ponderada == SomaRes(p, demanda_ponderada)
        energia_a_alocar == RMin(p.geracao_solar[t], SomaRes(p, dem))
        alocT == IF total_demanda_ponderada = Zero
                 THEN [i \in Res(p) |-> NaN]
                 ELSE [i \in Res(p) |->
                          RMul(RDiv(demanda_ponderada[i], total_demanda_ponderada),
                               energia_a_alocar)]
    IN  [aloc |-> alocT,
         rede |-> [i \in Res(p) |-> IF alocT[i] = NaN THEN NaN
                                    ELSE RMax(Zero, RSub(dem[i], alocT[i]))],
         excedente |-> RMax(Zero, RSub(p.geracao_solar[t], SomaRes(p, dem)))]

C2PriorizacaoHora(p, t) ==
    LET dem == [i \in Res(p) |-> p.demanda_residencias[i][t]]
        demanda_ponderada == [i \in Res(p) |-> RMul(dem[i], pesos_prioridade(p)[i])]
        total_demanda_ponderada == SomaRes(p, demanda_ponderada)
        proporcao_ponderada ==
            [i \in Res(p) |-> RDiv(demanda_ponderada[i], total_demanda_ponderada)]
        energia_a_alocar == RMin(p.geracao_solar[t], SomaRes(p, dem))
        alocT == IF RLt(Zero, total_demanda_ponderada)
                 THEN [i \in Res(p) |-> RMul(proporcao_ponderada[i], energia_a_alocar)]
                 ELSE [i \in Res(p) |-> Zero]
        excT == IF RLt(Zero, total_demanda_ponderada)
                THEN RMax(Zero, RSub(p.geracao_solar[t], SomaRes(p, dem)))
                ELSE Zero
    IN  [aloc |-> alocT,
         rede |-> [i \in Res(p) |-> RMax(Zero, RSub(dem[i], alocT[i]))],
         excedente |-> excT]

\* the three matrices a heuristic returns, from its hourly step
MatrizesHeur(p, por_hora) ==
    CHOOSE r \in
        {[aloc |-> [i \in Res(p) |-> [t \in Hrs(p) |-> h[t].aloc[i]]],
          rede |-> [i \in Res(p) |-> [t \in Hrs(p) |-> h[t].rede[i]]],
          excedente |-> [t \in Hrs(p) |-> h[t].excedente]] :
            h \in {por_hora}} : TRUE

cenario_1_proporcional_simples(p) ==
    MatrizesHeur(p, [t \in Hrs(p) |-> C1SimplesHora(p, t)])

cenario_1_proporcional(p) ==
    MatrizesHeur(p, [t \in Hrs(p) |-> C1ProporcionalHora(p, t)])

cenario_2_priorizacao_tarifa_social(p) ==
    MatrizesHeur(p, [t \in Hrs(p) |-> C2PriorizacaoHora(p, t)])

(***************************************************************************)
(* The heuristic scenarios as operations: the whole loop over the hours.   *)
(***************************************************************************)
InitHeur ==
    /\ prog = "heuristica"
    /\ pc = "inicio"
    /\ params \in ParamsHeur
    /\ status = "nao_resolvido"
    /\ sol = Nenhum
    /\ aloc = Nenhum
    /\ rede = Nenhum
    /\ excedente = Nenhum
    /\ resultados = Nenhum
    /\ modelos = <<>>
    /\ excecao = Nenhum
    /\ laco = Nenhum

Cenario1ProporcionalSimples ==
    /\ prog = "heuristica"
    /\ pc = "inicio"
    /\ pc' = "cenario_1_proporcional_simples"
    /\ \E r \in {cenario_1_proporcional_simples(params)} :
           /\ aloc' = r.aloc
           /\ rede' = r.rede
           /\ excedente' = r.excedente
    /\ UNCHANGED <<prog, params, status, sol, resultados, modelos, excecao, laco>>

Cenario1Proporcional ==
    /\ prog = "heuristica"
    /\ pc = "inicio"
    /\ pc' = "cenario_1_proporcional"
    /\ \E r \in {cenario_1_proporcional(params)} :
           /\ aloc' = r.aloc
           /\ rede' = r.rede
           /\ excedente' = r.excedente
    /\ UNCHANGED <<prog, params, status, sol, resultados, modelos, excecao, laco>>

Cenario2PriorizacaoTarifaSocial ==
    /\ prog = "heuristica"
    /\ pc = "inicio"
    /\ pc' = "cenario_2_priorizacao_tarifa_social"
    /\ \E r \in {cenario_2_priorizacao_tarifa_social(params)} :
           /\ aloc' = r.aloc
           /\ rede' = r.rede
           /\ excedente' = r.excedente
    /\ UNCHANGED <<prog, params, status, sol, resultados, modelos, excecao, laco>>

NextHeur ==
    \/ Cenario1ProporcionalSimples
    \/ Cenario1Proporcional
    \/ Cenario2PriorizacaoTarifaSocial

SpecHeur == InitHeur /\ [][NextHeur]_vars

(***************************************************************************)
(* app2.py: module data (carregar_dados_alagoas).                          *)
(***************************************************************************)
PERDAS_REDE == Rat(74, 1000)

DEMANDA_MINIMA_PRIORITARIOS == 5

CUSTO_REDE == Rat(8, 10)

DemandaHorariaValores == {1, 3}

GeracaoApp2Valores == {0, 5, 10}

CreditoValores == {0, 4}

\* PRIORIDADES: one draw, normalised to sum 1
PRIORIDADES ==
    [i \in Residencias |-> Rat(2 * (i + 1), NumRes * (NumRes + 1))]

\* sorted(range(N), key=lambda i: -PRIORIDADES[i])[:N // 2]
CONSUMIDORES_PRIORITARIOS ==
    {i \in Residencias :
        Cardinality({j \in Residencias :
            \/ RLt(PRIORIDADES[i], PRIORIDADES[j])
            \/ (PRIORIDADES[i] = PRIORIDADES[j] /\ j < i)}) < NumRes \div 2}

ParamsApp2 ==
    [GERACAO_SOLAR : [Horas -> {RInt(g) : g \in GeracaoApp2Valores}],
     DEMANDA_HORARIA : [Residencias -> [Horas -> {RInt(d) : d \in DemandaHorariaValores}]]]

\* the sum of f[i] over the consumers
TotalRes(f) == RSum(f, 0, NumRes - 1)

LIMITE_INJECAO(p, t) == RMul(Rat(8, 10), p.GERACAO_SOLAR[t])

UmMenosPerdas == RSub(RInt(1), PERDAS_REDE)

(***************************************************************************)
(* cenario_sequencial: consumers served in index order, hour by hour.      *)
(* SeqHora(p, t, n) is the state of the inner loop after consumers 0..n-1. *)
(***************************************************************************)
RECURSIVE SeqHora(_, _, _)
SeqHora(p, t, n) ==
    IF n = 0
    THEN [energia_disponivel |-> RMul(p.GERACAO_SOLAR[t], UmMenosPerdas),
          alocacao |-> <<>>, creditos |-> <<>>, energia_rede |-> <<>>]
    ELSE LET ant == SeqHora(p, t, n - 1)
             i == n - 1
             D == p.DEMANDA_HORARIA[i][t]
         IN  IF RLeq(D, ant.energia_disponivel)
             THEN [energia_disponivel |-> RSub(ant.energia_disponivel, D),
                   alocacao |-> ant.alocacao @@ (i :> 1),
                   creditos |-> ant.creditos @@
                       (i :> RMax(Zero, RSub(RMul(p.GERACAO_SOLAR[t], RInt(1)), D))),
                   energia_rede |-> ant.energia_rede @@ (i :> Zero)]
             ELSE [energia_disponivel |-> ant.energia_disponivel,
                   alocacao |-> ant.alocacao @@ (i :> 0),
                   creditos |-> ant.creditos @@ (i :> Zero),
                   energia_rede |-> ant.energia_rede @@ (i :> RMul(D, RInt(1 - 0)))]

cenario_sequencial(p) ==
    CHOOSE r \in
        {[alocacao |-> [i \in Residencias |-> [t \in Horas |-> h[t].alocacao[i]]],
          creditos |-> [i \in Residencias |-> [t \in Horas |-> h[t].creditos[i]]],
          energia_rede |-> [i \in Residencias |-> [t \in Horas |-> h[t].energia_rede[i]]]] :
            h \in {[t \in Horas |-> SeqHora(p, t, NumRes)]}} : TRUE

(***************************************************************************)
(* criar_modelo_otimizacao: the constraints of the binary covering model.  *)
(* An assignment is a record of matrices alocacao (0 or 1), creditos and   *)
(* energia_rede; a hour of it is a function from consumers to cells.       *)
(***************************************************************************)
\* sum over consumers of DEMANDA_HORARIA * alocacao <= GERACAO_SOLAR * (1 - PERDAS_REDE)
RestricaoCapacidade(p, t, h) ==
    RLeq(TotalRes([i \in Residencias |->
                      RMul(p.DEMANDA_HORARIA[i][t], RInt(h[i].alocacao))]),
         RMul(p.GERACAO_SOLAR[t], UmMenosPerdas))

\* creditos <= GERACAO_SOLAR * alocacao - DEMANDA_HORARIA, and creditos >= 0
RestricaoCreditos(p, i, t, c) ==
    /\ RLeq(c.creditos,
            RSub(RMul(p.GERACAO_SOLAR[t], RInt(c.alocacao)), p.DEMANDA_HORARIA[i][t]))
    /\ RLeq(Zero, c.creditos)

\* sum over consumers of creditos <= LIMITE_INJECAO
RestricaoInjecao(p, t, h) ==
    RLeq(TotalRes([i \in Residencias |-> h[i].creditos]), LIMITE_INJECAO(p, t))

\* DEMANDA_HORARIA * alocacao + energia_rede == DEMANDA_HORARIA
RestricaoBalanco(p, i, t, c) ==
    RAdd(RMul(p.DEMANDA_HORARIA[i][t], RInt(c.alocacao)), c.energia_rede)
        = p.DEMANDA_HORARIA[i][t]

\* prioritario: sum over hours of DEMANDA_HORARIA * alocacao >= DEMANDA_MINIMA_PRIORITARIOS
RestricaoPrioritarios(p, modo, s) ==
    modo = "prioritario" =>
        \A i \in CONSUMIDORES_PRIORITARIOS :
            RLeq(RInt(DEMANDA_MINIMA_PRIORITARIOS),
                 RSum([t \in Horas |-> RMul(p.DEMANDA_HORARIA[i][t], RInt(s[t][i].alocacao))],
                      0, NumHoras - 1))

\* the lattice of one cell: alocacao binary, creditos and energia_rede >= 0
CelulasApp2 ==
    [alocacao : {0, 1},
     creditos : {RInt(c) : c \in CreditoValores},
     energia_rede : {RInt(r) : r \in {0} \cup DemandaHorariaValores}]

HorasViaveisApp2(p, t) ==
    {h \in Produto([i \in Residencias |->
                       {c \in CelulasApp2 : /\ RestricaoCreditos(p, i, t, c)
                                            /\ RestricaoBalanco(p, i, t, c)}], NumRes) :
        /\ RestricaoCapacidade(p, t, h)
        /\ RestricaoInjecao(p, t, h)}

\* the feasible assignments, as functions hour -> consumer -> cell
ViaveisApp2(p, modo) ==
    {s \in Produto([t \in Horas |-> HorasViaveisApp2(p, t)], NumHoras) :
        RestricaoPrioritarios(p, modo, s)}

\* the sum of f[t][i] over the hours and the consumers
SomaCelulas(f) == RSum([t \in Horas |-> TotalRes(f[t])], 0, NumHoras - 1)

ObjetivoApp2(p, modo, s) ==
    LET alocado == [t \in Horas |-> [i \in Residencias |->
                       RMul(RInt(s[t][i].alocacao), p.DEMANDA_HORARIA[i][t])]]
        ponderado == [t \in Horas |-> [i \in Residencias |->
                         RMul(PRIORIDADES[i],
                              RMul(RInt(s[t][i].alocacao), p.DEMANDA_HORARIA[i][t]))]]
        cred == [t \in Horas |-> [i \in Residencias |-> s[t][i].creditos]]
        grid == [t \in Horas |-> [i \in Residencias |-> s[t][i].energia_rede]]
    IN  IF modo = "prioritario"
        THEN RSub(RAdd(RMul(Rat(6, 10), SomaCelulas(ponderado)),
                       RMul(Rat(3, 10), SomaCelulas(cred))),
                  RMul(Rat(1, 10), RMul(CUSTO_REDE, SomaCelulas(grid))))
        ELSE RSub(SomaCelulas(alocado), RMul(Rat(1, 10), SomaCelulas(grid)))

\* the assignments a solve may return with status Optimal, among the feasible V
OtimosApp2(p, modo, V) ==
    UNION {{s \in V : ObjetivoApp2(p, modo, s) = melhor} :
              melhor \in {RMaximo({ObjetivoApp2(p, modo, s) : s \in V})}}

\* the result entry executar_cenarios builds from the variable values
ExtrairApp2(p, s) ==
    [alocacao |-> [i \in Residencias |-> [t \in Horas |->
                      RMul(RInt(s[t][i].alocacao), p.DEMANDA_HORARIA[i][t])]],
     creditos |-> [i \in Residencias |-> [t \in Horas |-> s[t][i].creditos]],
     energia_rede |-> [i \in Residencias |-> [t \in Horas |-> s[t][i].energia_rede]]]

(***************************************************************************)
(* executar_cenarios, step by step.                                        *)
(***************************************************************************)
InitApp2 ==
    /\ prog = "app2"
    /\ pc = "inicio"
    /\ params \in ParamsApp2
    /\ status = "nao_resolvido"
    /\ sol = Nenhum
    /\ aloc = Nenhum
    /\ rede = Nenhum
    /\ excedente = Nenhum
    /\ resultados = Nenhum
    /\ modelos = <<>>
    /\ excecao = Nenhum
    /\ laco = Nenhum

CenarioSequencial ==
    /\ prog = "app2"
    /\ pc = "inicio"
    /\ pc' = "Sequencial"
    /\ \E r \in {cenario_sequencial(params)} :
          resultados' =
              [Sequencial |->
                  [alocacao |-> [i \in Residencias |-> [t \in Horas |->
                       RMul(RInt(r.alocacao[i][t]), params.DEMANDA_HORARIA[i][t])]],
                   creditos |-> r.creditos,
                   energia_rede |-> r.energia_rede]]
    /\ UNCHANGED <<prog, params, status, sol, aloc, rede, excedente, modelos, excecao, laco>>

\* what varValue holds after a solve that found the model infeasible: the
\* solver's last point, which is no solution (here: every cell alike)
ValoresSemOtimo ==
    {[t \in Horas |-> [i \in Residencias |-> c]] : c \in CelulasApp2}

\* criar_modelo_otimizacao(modo), modelo.solve and the extraction of the
\* values.  executar_cenarios never reads the status of the solve: the
\* matrices are built from varValue whatever it is.  When a varValue is None
\* the product with DEMANDA_HORARIA raises TypeError.
ResolverApp2(de, modo, para) ==
    /\ prog = "app2"
    /\ pc = de
    /\ \E V \in {ViaveisApp2(params, modo)} :
          IF V # {}
          THEN \E s \in OtimosApp2(params, modo, V) :
                  /\ sol' = s
                  /\ status' = "Optimal"
                  /\ resultados' = resultados @@ (para :> ExtrairApp2(params, s))
                  /\ pc' = para
          ELSE \/ \E s \in ValoresSemOtimo :
                     /\ status' = "Infeasible"
                     /\ sol' = s
                     /\ resultados' = resultados @@ (para :> ExtrairApp2(params, s))
                     /\ pc' = para
               \/ /\ status' = "Infeasible"
                  /\ sol' = Nenhum
                  /\ resultados' = resultados
                  /\ pc' = "erro"
    /\ UNCHANGED <<prog, params, aloc, rede, excedente, modelos, excecao, laco>>

ResolverSimples == ResolverApp2("Sequencial", "simples", "PLI_Simples")

ResolverPrioritario == ResolverApp2("PLI_Simples", "prioritario", "PLI_Prioritario")

NextApp2 ==
    \/ CenarioSequencial
    \/ ResolverSimples
    \/ ResolverPrioritario

SpecApp2 == InitApp2 /\ [][NextApp2]_vars

(***************************************************************************)
(* Inputs of the optimisation scenarios of Projeto (config.py).            *)
(***************************************************************************)
DemandaOtimValores == {1, 2}

ParamsOtim ==
    [num_residencias : {NumRes},
     num_horas : {NumHoras},
     demanda_residencias :
         {[i \in Residencias |-> [t \in Horas |-> RInt(d[i])]] :
             d \in [Residencias -> DemandaOtimValores]},
     geracao_solar : [Horas -> {RInt(g) : g \in GeracaoValores}],
     eficiencia_rede : {[t \in Horas |-> Rat(95, 100)]},
     pesos_prioridade_c2 : {[i \in Residencias |-> IF i % 2 = 0 THEN RInt(2) ELSE RInt(1)]},
     demanda_base_ajustada : {RInt(1)},
     demandas_minimas_residencias : {[i \in Residencias |-> RInt(1)]},
     limite_fluxo_hora : {RInt(3)},
     limite_injecao_rede : {[t \in Horas |-> RInt(1)]},
     tarifas_residencias :
         {[i \in Residencias |-> [t \in Horas |-> IF i % 2 = 0 THEN RInt(3) ELSE RInt(5)]]}]

\* the lattices of the solver's variables
XValores == {Zero, Rat(1, 2), RInt(1)}

XLivreValores == {Zero, Rat(1, 2), RInt(1), RInt(2)}

UValores == {Zero, RInt(1), RInt(2)}

ZValores == {Zero, RInt(1), RInt(2)}

VValores == {Zero, Rat(1, 2), RInt(1), RInt(2)}

\* x[i, t] * demanda_residencias[i][t], summed over the residences of hour record h
AlocadoHora(p, t, h) ==
    SomaRes(p, [i \in Res(p) |-> RMul(h.cel[i].x, p.demanda_residencias[i][t])])

\* x[i, t] * demanda_residencias[i][t], summed over the hours of assignment f
AlocadoRes(p, i, f) ==
    SomaHoras(p, [t \in Hrs(p) |-> RMul(f[t].cel[i].x, p.demanda_residencias[i][t])])

\* np.sum(demanda_residencias)
SomaDemanda(p) ==
    SomaHoras(p, [t \in Hrs(p) |-> SomaRes(p, [i \in Res(p) |-> p.demanda_residencias[i][t]])])

(***************************************************************************)
(* cenario_2_mono_objetivo: constraints and objective.                     *)
(***************************************************************************)
C2_Capacidade(p, t, h) ==
    RLeq(AlocadoHora(p, t, h), RMul(p.eficiencia_rede[t], p.geracao_solar[t]))

C2_LimiteFluxo(p, t, h) == RLeq(AlocadoHora(p, t, h), p.limite_fluxo_hora)

C2_Excedente(p, t, h) ==
    RLeq(RAdd(AlocadoHora(p, t, h), h.z), RMul(p.eficiencia_rede[t], p.geracao_solar[t]))

\* the model without the injection limit: z is only non-negative
C2_InjecaoSemLimite(p, t, h) == RLeq(Zero, h.z)

C2_Injecao(p, t, h) == RLeq(h.z, p.limite_injecao_rede[t])

C2_DemandaBase(p, i, f) == RLeq(p.demanda_base_ajustada, AlocadoRes(p, i, f))

C2_DemandaMinima(p, i, f) == RLeq(p.demandas_minimas_residencias[i], AlocadoRes(p, i, f))

\* x * demanda + u >= demanda
C2_Balanco(p, i, t, c) ==
    RLeq(p.demanda_residencias[i][t], RAdd(RMul(c.x, p.demanda_residencias[i][t]), c.u))

\* x <= y
C2_Gating(c) == RLeq(c.x, RInt(c.y))

C2_Objetivo(p, f) ==
    SomaRes(p, [i \in Res(p) |-> RMul(p.pesos_prioridade_c2[i], AlocadoRes(p, i, f))])

C2_HorasViaveis(p, t) ==
    {h \in [cel : Produto([i \in Res(p) |->
                      {c \in [x : XValores, y : {0, 1}, u : UValores] :
                          C2_Balanco(p, i, t, c) /\ C2_Gating(c)}], p.num_residencias),
            z : ZValores] :
        /\ C2_Capacidade(p, t, h)
        /\ C2_LimiteFluxo(p, t, h)
        /\ C2_Excedente(p, t, h)
        /\ C2_Injecao(p, t, h)}

\* the feasible assignments of the model: functions hour -> hour record
C2_Viaveis(p) ==
    {f \in Produto([t \in Hrs(p) |-> C2_HorasViaveis(p, t)], p.num_horas) :
        \A i \in Res(p) : C2_DemandaBase(p, i, f) /\ C2_DemandaMinima(p, i, f)}

C2_Otimos(p, V) ==
    UNION {{f \in V : C2_Objetivo(p, f) = melhor} :
              melhor \in {RMaximo({C2_Objetivo(p, f) : f \in V})}}

(***************************************************************************)
(* cenario_3_multiobjetivo: constraints and objective.  An assignment is a *)
(* record [horas, v]; an hour record carries cel, z and creditos.          *)
(***************************************************************************)
pesos_objetivos_c3 == <<Rat(7, 10), Rat(5, 100), Rat(1, 10), Rat(15, 100)>>

CreditosValores == {RMul(z, Rat(9, 10)) : z \in ZValores}

C3_Capacidade(p, t, h) ==
    RLeq(AlocadoHora(p, t, h), RMul(p.eficiencia_rede[t], p.geracao_solar[t]))

C3_Capacidade99(p, t, h) ==
    RLeq(AlocadoHora(p, t, h), RMul(Rat(99, 100), p.geracao_solar[t]))

C3_Excedente(p, t, h) ==
    RLeq(RAdd(AlocadoHora(p, t, h), h.z), RMul(p.eficiencia_rede[t], p.geracao_solar[t]))

C3_Injecao(p, t, h) == RLeq(h.z, p.limite_injecao_rede[t])

C3_Creditos(h) == h.creditos = RMul(h.z, Rat(9, 10))

C3_Pico(p, t, h) ==
    (15 <= t /\ t <= 18) =>
        RLeq(SomaRes(p, [i \in Res(p) |-> h.cel[i].u]),
             RMul(Rat(1, 10), SomaRes(p, [i \in Res(p) |-> p.demanda_residencias[i][t]])))

C3_AtendimentoMinimo(p, i, f) ==
    RLeq(RMul(RMin(p.demanda_base_ajustada, p.demandas_minimas_residencias[i]), Rat(1, 2)),
         AlocadoRes(p, i, f))

\* sum(creditos[s] for s in range(t)) / num_residencias, over the hours before t
CreditoPorCasa(p, f, t) ==
    RDiv(RSum([s \in 0..(t - 1) |-> f[s].creditos], 0, t - 1), RInt(p.num_residencias))

\* x * demanda + u >= demanda - credito_por_casa
C3_Balanco(p, i, t, c, credito_por_casa) ==
    RLeq(RSub(p.demanda_residencias[i][t], credito_por_casa),
         RAdd(RMul(c.x, p.demanda_residencias[i][t]), c.u))

media_alocado(p, f) ==
    RDiv(SomaRes(p, [i \in Res(p) |-> AlocadoRes(p, i, f)]), RInt(p.num_residencias))

\* the equity constraints without the floor of 10% of the mean
C3_EquidadeSemPiso(p, i, f, vi) ==
    /\ RLeq(RSub(AlocadoRes(p, i, f), media_alocado(p, f)), vi)
    /\ RLeq(RSub(media_alocado(p, f), AlocadoRes(p, i, f)), vi)

\* the three equity constraints of residence i, for the value vi of v[i]
C3_Equidade(p, i, f, vi) ==
    /\ RLeq(RSub(AlocadoRes(p, i, f), media_alocado(p, f)), vi)
    /\ RLeq(RSub(media_alocado(p, f), AlocadoRes(p, i, f)), vi)
    /\ RLeq(RMul(Rat(1, 10), media_alocado(p, f)), vi)

(***************************************************************************)
(* The feasible assignments, built hour by hour because the balance of     *)
(* hour t reads the credits of the hours before it.  With menor_u         *)
(* (menor_v) the enumeration keeps only the assignments in which every     *)
(* u[i, t] (every v[i]) is the least lattice value its constraints admit:  *)
(* the objective strictly decreases in u and v and only C3_Balanco and     *)
(* C3_Equidade bound them from below, so every maximiser is among those.   *)
(***************************************************************************)
C3_Celulas(p, i, t, credito_por_casa, menor_u) ==
    {c \in [x : XLivreValores, u : UValores] :
        /\ C3_Balanco(p, i, t, c, credito_por_casa)
        /\ menor_u =>
              \A u2 \in UValores :
                  RLt(u2, c.u) => ~C3_Balanco(p, i, t, [c EXCEPT !.u = u2], credito_por_casa)}

C3_HorasViaveis(p, t, credito_por_casa, menor_u) ==
    UNION {{[cel |-> cel, z |-> zc.z, creditos |-> zc.creditos] :
               cel \in Produto([i \in Res(p) |->
                          C3_Celulas(p, i, t, credito_por_casa, menor_u)],
                          p.num_residencias)} :
           zc \in {zc \in [z : ZValores, creditos : CreditosValores] :
                      C3_Injecao(p, t, zc) /\ C3_Creditos(zc)}}

C3_RestricoesHora(p, t, h) ==
    /\ C3_Capacidade(p, t, h)
    /\ C3_Capacidade99(p, t, h)
    /\ C3_Excedente(p, t, h)
    /\ C3_Pico(p, t, h)

\* the assignments of hours 0..n-1 that satisfy the per-hour constraints
RECURSIVE C3_Prefixos(_, _, _)
C3_Prefixos(p, n, menor_u) ==
    IF n = 0 THEN {<<>>}
    ELSE UNION {UNION {{f @@ ((n - 1) :> h) :
                          h \in {h \in C3_HorasViaveis(p, n - 1, cpc, menor_u) :
                                    C3_RestricoesHora(p, n - 1, h)}} :
                       cpc \in {CreditoPorCasa(p, f, n - 1)}} :
                f \in C3_Prefixos(p, n - 1, menor_u)}

C3_ValoresV(p, i, f, menor_v) ==
    {vi \in VValores :
        /\ C3_Equidade(p, i, f, vi)
        /\ menor_v => \A v2 \in VValores : RLt(v2, vi) => ~C3_Equidade(p, i, f, v2)}

C3_Viaveis(p, menor_u, menor_v) ==
    UNION {{[horas |-> f, v |-> v] :
               v \in Produto([i \in Res(p) |-> C3_ValoresV(p, i, f, menor_v)],
                             p.num_residencias)} :
           f \in {f \in C3_Prefixos(p, p.num_horas, menor_u) :
                     \A i \in Res(p) : C3_AtendimentoMinimo(p, i, f)}}

Z_1(p, g) ==
    RDiv(SomaRes(p, [i \in Res(p) |-> AlocadoRes(p, i, g.horas)]), SomaDemanda(p))

Z_2(p, g) ==
    RDiv(SomaRes(p, g.v),
         RMul(RInt(p.num_residencias),
              RDiv(SomaDemanda(p), RInt(p.num_residencias * p.num_horas))))

Z_3(p, g) ==
    RDiv(SomaHoras(p, [t \in Hrs(p) |-> SomaRes(p, [i \in Res(p) |-> g.horas[t].cel[i].u])]),
         SomaDemanda(p))

Z_4(p, g) ==
    RDiv(SomaHoras(p, [t \in Hrs(p) |-> SomaRes(p, [i \in Res(p) |->
                 RMul(p.tarifas_residencias[i][t], g.horas[t].cel[i].u)])]),
         SomaHoras(p, [t \in Hrs(p) |-> SomaRes(p, [i \in Res(p) |->
                 RMul(p.tarifas_residencias[i][t], p.demanda_residencias[i][t])])]))

C3_Objetivo(p, g) ==
    RSub(RSub(RSub(RMul(pesos_objetivos_c3[1], Z_1(p, g)),
                   RMul(pesos_objetivos_c3[2], Z_2(p, g))),
              RMul(pesos_objetivos_c3[3], Z_3(p, g))),
         RMul(pesos_objetivos_c3[4], Z_4(p, g)))

C3_Otimos(p, V) ==
    UNION {{g \in V : C3_Objetivo(p, g) = melhor} :
              melhor \in {RMaximo({C3_Objetivo(p, g) : g \in V})}}

(***************************************************************************)
(* Extraction of the result matrices (both optimisation scenarios):        *)
(* aloc = max(0, x.varValue or 0) * demanda, rede = max(0, u.varValue or   *)
(* 0), excedente = max(0, z.varValue or 0).                                *)
(***************************************************************************)
None == "None"

ValorOu0(v) == IF v = None THEN Zero ELSE v

ExtrairOtim(p, f) ==
    [aloc |-> [i \in Res(p) |-> [t \in Hrs(p) |->
                  RMul(RMax(Zero, ValorOu0(f[t].cel[i].x)), p.demanda_residencias[i][t])]],
     rede |-> [i \in Res(p) |-> [t \in Hrs(p) |-> RMax(Zero, ValorOu0(f[t].cel[i].u))]],
     excedente |-> [t \in Hrs(p) |-> RMax(Zero, ValorOu0(f[t].z))]]

(***************************************************************************)
(* The optimisation scenarios as operations.                               *)
(***************************************************************************)
InitOtim ==
    /\ prog = "otimizacao"
    /\ pc = "inicio"
    /\ params \in ParamsOtim
    /\ status = "nao_resolvido"
    /\ sol = Nenhum
    /\ aloc = Nenhum
    /\ rede = Nenhum
    /\ excedente = Nenhum
    /\ resultados = Nenhum
    /\ modelos = <<>>
    /\ excecao = Nenhum
    /\ laco = Nenhum

\* the variable values after a solve that found no solution: varValue is None
SemValores(p) ==
    [t \in Hrs(p) |->
        [cel |-> [i \in Res(p) |-> [x |-> None, u |-> None]], z |-> None]]

\* the test before the extraction without its effect: every status passes
StatusQualquer(st) == TRUE

\* modelo.status != 1 raises ValueError: only Optimal reaches the extraction
StatusOtimo(st) == st = "Optimal"

Cenario2MonoObjetivo ==
    /\ prog = "otimizacao"
    /\ pc = "inicio"
    /\ \E V \in {C2_Viaveis(params)} :
       \E st \in {IF V # {} THEN "Optimal" ELSE "Infeasible"} :
       \E f \in (IF V # {} THEN C2_Otimos(params, V) ELSE {SemValores(params)}) :
          /\ status' = st
          /\ sol' = IF V # {} THEN f ELSE Nenhum
          /\ IF StatusOtimo(st)
             THEN \E r \in {ExtrairOtim(params, f)} :
                     /\ aloc' = r.aloc
                     /\ rede' = r.rede
                     /\ excedente' = r.excedente
                     /\ pc' = "cenario_2_mono_objetivo"
             ELSE /\ pc' = "erro_cenario_2"
                  /\ UNCHANGED <<aloc, rede, excedente>>
    /\ UNCHANGED <<prog, params, resultados, modelos, excecao, laco>>

Cenario3Multiobjetivo ==
    /\ prog = "otimizacao"
    /\ pc = "inicio"
    /\ \E V \in {C3_Viaveis(params, TRUE, TRUE)} :
       \E st \in {IF V # {} THEN "Optimal" ELSE "Infeasible"} :
       \E g \in (IF V # {} THEN C3_Otimos(params, V)
                 ELSE {[horas |-> SemValores(params), v |-> None]}) :
          /\ status' = st
          /\ sol' = IF V # {} THEN g ELSE Nenhum
          /\ IF StatusOtimo(st)
             THEN \E r \in {ExtrairOtim(params, g.horas)} :
                     /\ aloc' = r.aloc
                     /\ rede' = r.rede
                     /\ excedente' = r.excedente
                     /\ pc' = "cenario_3_multiobjetivo"
             ELSE /\ pc' = "erro_cenario_3"
                  /\ UNCHANGED <<aloc, rede, excedente>>
    /\ UNCHANGED <<prog, params, resultados, modelos, excecao, laco>>

NextOtim ==
    \/ Cenario2MonoObjetivo
    \/ Cenario3Multiobjetivo

SpecOtim == InitOtim /\ [][NextOtim]_vars

(***************************************************************************)
(* app.py: the consortium.  config and data are the two dictionaries       *)
(* configurar_modelo_solar receives; the months are 0..NumMeses-1 (T).     *)
(***************************************************************************)
Meses == 0..(NumMeses - 1)

Unidades == 0..(NumUnidades - 1)

EConsValores == {9, 18}

OrcamentoValores == {10000, 25000}

ConfigConsorcio ==
    [N : {NumRes},
     M : {NumUnidades},
     B : {RInt(b) : b \in OrcamentoValores},
     r : {Rat(85, 100)},
     r_rede : {Rat(20, 100)},
     gamma : {Rat(50, 100)},
     taxa_disponibilidade : {RInt(1)},
     custo_garantia_por_kw : {Rat(1, 10)},
     alpha : {Rat(50, 100), Rat(80, 100)},
     max_units : {NumUnidades}]

\* the dictionary gerar_dados_solares returns, with E_cons drawn from a small set
DadosConsorcio ==
    [E_cons : [Residencias -> [Meses -> {RInt(e) : e \in EConsValores}]],
     P : {[j \in Unidades |-> RInt(IF j + 2 < 10 THEN j + 2 ELSE 10)]},
     c : {[j \in Unidades |-> RInt(4500 * (IF j + 2 < 10 THEN j + 2 ELSE 10))]},
     l : {[j \in Unidades |-> Rat(1, 5)]},
     l_dist : {[i \in Residencias |-> Rat(1, 10)]},
     k : {[j \in Unidades |-> [t \in Meses |-> IF j % 2 = 0 THEN Rat(25, 2) ELSE Rat(50, 3)]]}]

\* the lattices of the solver's variables
EnergiaValores == {RInt(9 * n) : n \in 0..2}

EstoqueValores == {RInt(9 * n) : n \in 0..4}

EAllocValores == {RInt(10 * n) : n \in 0..4}

EEffValores == {RInt(10 * n) : n \in 0..6}

AValores == {Rat(n, NumRes) : n \in 0..NumRes}

\* sum(data['E_cons'][i][t] for i in range(N))
ConsumoTotal(cfg, d, t) == RSum([i \in 0..(cfg.N - 1) |-> d.E_cons[i][t]], 0, cfg.N - 1)

(***************************************************************************)
(* configurar_modelo_solar: the named constraints.  cel is the record of   *)
(* the variables a, E_alloc, m, c, r, u of one residence and month.        *)
(***************************************************************************)
Energia_Efetiva(cfg, d, t, x, E_eff_t) ==
    E_eff_t = RSum([j \in 0..(cfg.M - 1) |->
                      RMul(RMul(RInt(x[j]), RSub(RInt(1), d.l[j])), RMul(d.k[j][t], d.P[j]))],
                   0, cfg.M - 1)

Limite_Geracao(cfg, d, t, E_eff_t) == RLeq(E_eff_t, RMul(Rat(3, 2), ConsumoTotal(cfg, d, t)))

Demanda_Minima(cfg, d, t, E_eff_t) == RLeq(RMul(cfg.alpha, ConsumoTotal(cfg, d, t)), E_eff_t)

Alocacao_Total(cfg, cels) == RSum([i \in 0..(cfg.N - 1) |-> cels[i].a], 0, cfg.N - 1) = RInt(1)

Alocacao_EnergiaLivre(cfg, cels, E_eff_t) == TRUE

Alocacao_Energia(cfg, cels, E_eff_t) ==
    RSum([i \in 0..(cfg.N - 1) |-> cels[i].E_alloc], 0, cfg.N - 1) = E_eff_t

E_alloc_Upper(cel) == RLeq(cel.E_alloc, RMul(cel.a, RInt(1000000)))

E_alloc_Lower(cel) == RLeq(Zero, cel.E_alloc)

E_alloc_Max(cel, E_eff_t) == RLeq(cel.E_alloc, E_eff_t)

Limite_Consumo(d, i, t, cel) == RLeq(cel.m, d.E_cons[i][t])

Limite_Atribuicao(d, i, cel) == RLeq(cel.m, RMul(RSub(RInt(1), d.l_dist[i]), cel.E_alloc))

Creditos(d, i, cel) == cel.c = RSub(RMul(RSub(RInt(1), d.l_dist[i]), cel.E_alloc), cel.m)

Demanda_CobertaSemRede(d, i, t, cel) == RLeq(RAdd(cel.m, cel.u), d.E_cons[i][t])

Demanda_Coberta(d, i, t, cel) == d.E_cons[i][t] = RAdd(RAdd(cel.m, cel.r), cel.u)

Estoque_Creditos(cel, C_it, C_prox) == C_prox = RSub(RAdd(C_it, cel.c), cel.u)

\* the model without Limite_Uso_Creditos: the use is not held to the stock
Limite_Uso_CreditosLivre(cel, C_it) == TRUE

Limite_Uso_Creditos(cel, C_it) == RLeq(cel.u, C_it)

Alocacao_Equitativa(cfg, cel) == cel.a = Rat(1, cfg.N)

Creditos_Iguais(cfg, cels) ==
    \A i \in 0..(cfg.N - 1) : \A j \in (i + 1)..(cfg.N - 1) : cels[i].c = cels[j].c

Orcamento(cfg, d, x) ==
    RLeq(RSum([j \in 0..(cfg.M - 1) |-> RMul(d.c[j], RInt(x[j]))], 0, cfg.M - 1), cfg.B)

Limite_Unidades(cfg, x) ==
    RLeq(RSum([j \in 0..(cfg.M - 1) |-> RInt(x[j])], 0, cfg.M - 1), RInt(cfg.max_units))

Estoque_InicialLivre(C_i0) == TRUE

Estoque_Inicial(C_i0) == C_i0 = Zero

(***************************************************************************)
(* The feasible assignments, built month by month because the stock of     *)
(* month t+1 reads the stock, the credits and the use of month t.  An      *)
(* assignment is a record [x, E_eff, mes, C] with mes[t][i] the record of  *)
(* residence i in month t and C[t][i] its stock at the start of month t.   *)
(***************************************************************************)
CelulasConsorcio(cfg, d, i, t, E_eff_t, C_it) ==
    {cel \in [a : AValores, E_alloc : EAllocValores, m : EnergiaValores,
              c : EnergiaValores, r : EnergiaValores, u : EnergiaValores] :
        /\ Alocacao_Equitativa(cfg, cel)
        /\ E_alloc_Upper(cel)
        /\ E_alloc_Lower(cel)
        /\ E_alloc_Max(cel, E_eff_t)
        /\ Limite_Consumo(d, i, t, cel)
        /\ Limite_Atribuicao(d, i, cel)
        /\ Creditos(d, i, cel)
        /\ Demanda_Coberta(d, i, t, cel)
        /\ Limite_Uso_Creditos(cel, C_it)}

MesesViaveis(cfg, d, t, E_eff_t, C_t) ==
    {cels \in Produto([i \in 0..(cfg.N - 1) |->
                          CelulasConsorcio(cfg, d, i, t, E_eff_t, C_t[i])], cfg.N) :
        /\ Alocacao_Total(cfg, cels)
        /\ Alocacao_Energia(cfg, cels, E_eff_t)
        /\ Creditos_Iguais(cfg, cels)}

RECURSIVE PrefixosConsorcio(_, _, _, _)
PrefixosConsorcio(cfg, d, E_eff, n) ==
    IF n = 0
    THEN {[mes |-> <<>>, C |-> (0 :> C0)] :
             C0 \in {C0 \in [0..(cfg.N - 1) -> EstoqueValores] :
                        \A i \in 0..(cfg.N - 1) : Estoque_Inicial(C0[i])}}
    ELSE UNION {UNION {{[mes |-> f.mes @@ ((n - 1) :> cels), C |-> f.C @@ (n :> Cp)] :
                          Cp \in {Cp \in [0..(cfg.N - 1) -> EstoqueValores] :
                                     \A i \in 0..(cfg.N - 1) :
                                         Estoque_Creditos(cels[i], f.C[n - 1][i], Cp[i])}} :
                       cels \in MesesViaveis(cfg, d, n - 1, E_eff[n - 1], f.C[n - 1])} :
                f \in PrefixosConsorcio(cfg, d, E_eff, n - 1)}

ViaveisConsorcio(cfg, d) ==
    UNION {UNION {{[x |-> x, E_eff |-> E, mes |-> f.mes, C |-> f.C] :
                     f \in PrefixosConsorcio(cfg, d, E, NumMeses)} :
                  E \in {E \in [Meses -> EEffValores] :
                            \A t \in Meses : /\ Energia_Efetiva(cfg, d, t, x, E[t])
                                             /\ Limite_Geracao(cfg, d, t, E[t])
                                             /\ Demanda_Minima(cfg, d, t, E[t])}} :
           x \in {x \in [0..(cfg.M - 1) -> {0, 1}] :
                     Orcamento(cfg, d, x) /\ Limite_Unidades(cfg, x)}}

\* the sum of f[t][i] over the months and the residences
SomaConsorcio(cfg, f) ==
    RSum([t \in Meses |-> RSum(f[t], 0, cfg.N - 1)], 0, NumMeses - 1)

\* sum(0.01 * data['c'][j] / 12 * x[j] for j in range(M))
custo_op_mensal(cfg, d, x) ==
    RSum([j \in 0..(cfg.M - 1) |-> RMul(RDiv(RMul(Rat(1, 100), d.c[j]), RInt(12)), RInt(x[j]))],
         0, cfg.M - 1)

custo_garantia(cfg, d, x) ==
    RMul(cfg.custo_garantia_por_kw,
         RSum([j \in 0..(cfg.M - 1) |-> RMul(d.P[j], RInt(x[j]))], 0, cfg.M - 1))

ObjetivoConsorcio(cfg, d, g) ==
    LET usado == [t \in Meses |-> [i \in 0..(cfg.N - 1) |->
                     RAdd(g.mes[t][i].m, g.mes[t][i].u)]]
        gerado == [t \in Meses |-> [i \in 0..(cfg.N - 1) |-> g.mes[t][i].c]]
    IN  RSub(RSub(RAdd(RSub(RSub(RMul(cfg.r, SomaConsorcio(cfg, usado)),
                                 RMul(custo_op_mensal(cfg, d, g.x), RInt(NumMeses))),
                            RMul(cfg.taxa_disponibilidade, RInt(cfg.N * NumMeses))),
                       RMul(cfg.gamma, SomaConsorcio(cfg, gerado))),
                  RMul(cfg.r_rede, SomaConsorcio(cfg, gerado))),
             custo_garantia(cfg, d, g.x))

OtimosConsorcio(cfg, d, V) ==
    UNION {{g \in V : ObjetivoConsorcio(cfg, d, g) = melhor} :
              melhor \in {RMaximo({ObjetivoConsorcio(cfg, d, g) : g \in V})}}

(***************************************************************************)
(* resolver_e_salvar: the results dictionary.                              *)
(***************************************************************************)
ZeroMensal == [t \in Meses |-> Zero]

\* the dictionary before the status is looked at: totals filled with zeros
ResultadosIniciais(st, cfg) ==
    [status |-> st,
     tarifa |-> cfg.r,
     residencias |-> <<>>,
     totais |-> [economia |-> ZeroMensal, creditos |-> ZeroMensal,
                 creditos_usados |-> ZeroMensal, energia_gerada |-> ZeroMensal,
                 energia_consumida |-> ZeroMensal, uso_rede |-> ZeroMensal,
                 custo_operacional |-> ZeroMensal]]

\* economia of one residence and month
Economia(cfg, cel) ==
    RSub(RMul(cfg.r, RAdd(ValorOu0(cel.m), ValorOu0(cel.u))), cfg.taxa_disponibilidade)

\* the dictionary after the extraction of an Optimal solve
ResultadosOtimos(cfg, d, g) ==
    LET N1 == cfg.N - 1
    IN  [status |-> "Optimal",
         tarifa |-> cfg.r,
         residencias |->
             [i \in 0..N1 |->
                 [consumo |-> [t \in Meses |-> d.E_cons[i][t]],
                  energia_solar |-> [t \in Meses |-> ValorOu0(g.mes[t][i].m)],
                  energia_rede |-> [t \in Meses |-> ValorOu0(g.mes[t][i].r)],
                  creditos |-> [t \in Meses |-> ValorOu0(g.mes[t][i].c)],
                  economia |-> [t \in Meses |-> Economia(cfg, g.mes[t][i])],
                  creditos_usados |-> [t \in Meses |-> ValorOu0(g.mes[t][i].u)],
                  alocacao |-> [t \in Meses |-> ValorOu0(g.mes[t][i].a)]]],
         totais |->
             [economia |-> [t \in Meses |->
                  RSum([i \in 0..N1 |-> Economia(cfg, g.mes[t][i])], 0, N1)],
              creditos |-> [t \in Meses |->
                  RSum([i \in 0..N1 |-> ValorOu0(g.mes[t][i].c)], 0, N1)],
              creditos_usados |-> [t \in Meses |->
                  RSum([i \in 0..N1 |-> ValorOu0(g.mes[t][i].u)], 0, N1)],
              energia_gerada |-> [t \in Meses |-> ValorOu0(g.E_eff[t])],
              energia_consumida |-> [t \in Meses |-> ConsumoTotal(cfg, d, t)],
              uso_rede |-> [t \in Meses |->
                  RSum([i \in 0..N1 |-> ValorOu0(g.mes[t][i].r)], 0, N1)],
              custo_operacional |-> [t \in Meses |-> custo_op_mensal(cfg, d, g.x)]],
         unidades_instaladas |-> {j \in 0..(cfg.M - 1) : g.x[j] = 1},
         total_custo_instalacao |->
             RSum([j \in 0..(cfg.M - 1) |-> RMul(d.c[j], RInt(g.x[j]))], 0, cfg.M - 1),
         potencia_total |->
             RSum([j \in 0..(cfg.M - 1) |-> IF g.x[j] = 1 THEN d.P[j] ELSE Zero], 0, cfg.M - 1)]

InitConsorcio ==
    /\ prog = "consorcio"
    /\ pc = "inicio"
    /\ params \in [config : ConfigConsorcio, data : DadosConsorcio]
    /\ status = "nao_resolvido"
    /\ sol = Nenhum
    /\ aloc = Nenhum
    /\ rede = Nenhum
    /\ excedente = Nenhum
    /\ resultados = Nenhum
    /\ modelos = <<>>
    /\ excecao = Nenhum
    /\ laco = Nenhum

\* The ends of one call of resolver_e_salvar(..., run_sensitivity=False) on the
\* model built from cfg and d.  prob.solve may raise, and the exception is
\* raised again.  Otherwise the status is read: only an Optimal status is
\* followed by the extraction and by the output files, whose failure is
\* raised again; any other status returns the dictionary as first filled.
ExecucoesConsorcio(cfg, d) ==
    UNION {
        {[fim |-> "excecao", em |-> "solve", status |-> "nao_resolvido",
          sol |-> Nenhum, resultados |-> Nenhum]}
        \cup
        (IF V = {}
         THEN {[fim |-> "retorno", em |-> "", status |-> "Infeasible",
                sol |-> Nenhum, resultados |-> ResultadosIniciais("Infeasible", cfg)]}
         ELSE UNION {
                 {[fim |-> "retorno", em |-> "", status |-> "Optimal",
                   sol |-> g, resultados |-> ResultadosOtimos(cfg, d, g)],
                  [fim |-> "excecao", em |-> "saidas", status |-> "Optimal",
                   sol |-> g, resultados |-> Nenhum]} :
                 g \in OtimosConsorcio(cfg, d, V)})
        : V \in {ViaveisConsorcio(cfg, d)}}

\* the models built so far when the last one is solved again instead of a
\* new one being built
ModeloReutilizado(ms, cfg) ==
    IF ms = <<>> THEN <<[config |-> cfg, resolvido |-> 1]>>
    ELSE [ms EXCEPT ![Len(ms)].resolvido = @ + 1]

\* the models built so far after configurar_modelo_solar(config, data) built
\* one more from cfg and resolver_e_salvar called prob.solve on it
ModeloResolvido(ms, cfg) == Append(ms, [config |-> cfg, resolvido |-> 1])

\* configurar_modelo_solar followed by resolver_e_salvar(run_sensitivity=False)
ResolverESalvar ==
    /\ prog = "consorcio"
    /\ pc = "inicio"
    /\ \E e \in ExecucoesConsorcio(params.config, params.data) :
          /\ status' = e.status
          /\ sol' = e.sol
          /\ IF e.fim = "retorno"
             THEN /\ resultados' = e.resultados
                  /\ pc' = "resolver_e_salvar"
                  /\ excecao' = excecao
             ELSE /\ resultados' = resultados
                  /\ pc' = "excecao"
                  /\ excecao' = [tipo |-> "Exception", em |-> e.em]
    /\ modelos' = ModeloResolvido(modelos, params.config)
    /\ UNCHANGED <<prog, params, aloc, rede, excedente, laco>>

NextConsorcio ==
    \/ ResolverESalvar

SpecConsorcio == InitConsorcio /\ [][NextConsorcio]_vars

(***************************************************************************)
(* Projeto/main.py: the three scenarios in turn, each analysed and kept,   *)
(* then the export and the plots.  Nothing in main catches an exception.   *)
(***************************************************************************)
\* numpy's quotient: 0/0 is nan and x/0 is inf, no exception is raised
RDivNp(a, b) == IF b # Zero THEN RDiv(a, b) ELSE IF a = Zero THEN NaN ELSE <<1, 0>>

\* analisar_resultados(aloc, rede, params, nome); the standard deviation of
\* the totals (an irrational number in general) is not carried
analisar_resultados(al, rd, p, nome) ==
    LET energia_unidade == [i \in Res(p) |-> SomaHoras(p, al[i])]
        energia_total == SomaRes(p, energia_unidade)
        uso_rede == SomaRes(p, [i \in Res(p) |-> SomaHoras(p, rd[i])])
    IN  [cenario |-> nome,
         eficiencia |-> RDivNp(energia_total, SomaHoras(p, p.geracao_solar)),
         autossuficiencia |-> RDivNp(energia_total, SomaDemanda(p)),
         rede |-> uso_rede,
         custo |-> SomaRes(p, [i \in Res(p) |->
                      SomaHoras(p, [t \in Hrs(p) |->
                          RMul(p.tarifas_residencias[i][t], rd[i][t])])]),
         energia_unidade |-> energia_unidade]

InitMain ==
    /\ prog = "main"
    /\ pc = "inicio"
    /\ params \in ParamsOtim
    /\ status = "nao_resolvido"
    /\ sol = Nenhum
    /\ aloc = Nenhum
    /\ rede = Nenhum
    /\ excedente = Nenhum
    /\ resultados = [analises |-> <<>>, aloc_list |-> <<>>, rede_list |-> <<>>,
                     saidas |-> {}]
    /\ modelos = <<>>
    /\ excecao = Nenhum
    /\ laco = Nenhum

\* the scenario's matrices analysed and appended to the three lists
Acrescentar(res, p, r, nome) ==
    [res EXCEPT !.analises = Append(@, analisar_resultados(r.aloc, r.rede, p, nome)),
                !.aloc_list = Append(@, r.aloc),
                !.rede_list = Append(@, r.rede)]

MainCenario1 ==
    /\ prog = "main"
    /\ pc = "inicio"
    /\ \E r \in {cenario_1_proporcional_simples(params)} :
          /\ aloc' = r.aloc
          /\ rede' = r.rede
          /\ excedente' = r.excedente
          /\ resultados' = Acrescentar(resultados, params, r, "Cenario 1")
    /\ pc' = "main_cenario_1"
    /\ UNCHANGED <<prog, params, status, sol, modelos, excecao, laco>>

MainCenario2 ==
    /\ prog = "main"
    /\ pc = "main_cenario_1"
    /\ \E r \in {cenario_2_priorizacao_tarifa_social(params)} :
          /\ aloc' = r.aloc
          /\ rede' = r.rede
          /\ excedente' = r.excedente
          /\ resultados' = Acrescentar(resultados, params, r, "Cenario 2")
    /\ pc' = "main_cenario_2"
    /\ UNCHANGED <<prog, params, status, sol, modelos, excecao, laco>>

\* cenario_3_multiobjetivo(params): its ValueError leaves main at once
MainCenario3 ==
    /\ prog = "main"
    /\ pc = "main_cenario_2"
    /\ \E V \in {C3_Viaveis(params, TRUE, TRUE)} :
       \E st \in {IF V # {} THEN "Optimal" ELSE "Infeasible"} :
       \E g \in (IF V # {} THEN C3_Otimos(params, V)
                 ELSE {[horas |-> SemValores(params), v |-> None]}) :
          /\ status' = st
          /\ sol' = IF V # {} THEN g ELSE Nenhum
          /\ IF StatusOtimo(st)
             THEN \E r \in {ExtrairOtim(params, g.horas)} :
                     /\ aloc' = r.aloc
                     /\ rede' = r.rede
                     /\ excedente' = r.excedente
                     /\ resultados' = Acrescentar(resultados, params, r, "Cenario 3")
                     /\ pc' = "main_cenario_3"
                     /\ excecao' = excecao
             ELSE /\ pc' = "excecao"
                  /\ excecao' = [tipo |-> "ValueError",
                                 em |-> <<"Solver falhou para o Cenario 3">>]
                  /\ UNCHANGED <<aloc, rede, excedente, resultados>>
    /\ UNCHANGED <<prog, params, modelos, laco>>

\* exportar_resultados: the comparison and one allocation file per scenario
ExportarResultados ==
    /\ prog = "main"
    /\ pc = "main_cenario_3"
    /\ resultados' =
          [resultados EXCEPT !.saidas =
              @ \cup {<<"comparacao_todos_cenarios">>}
                \cup {<<"alocacao_cenario", n>> : n \in 1..Len(resultados.aloc_list)}]
    /\ pc' = "exportado"
    /\ UNCHANGED <<prog, params, status, sol, aloc, rede, excedente,
                   modelos, excecao, laco>>

\* plotar_graficos: the comparison charts of the scenarios analysed
PlotarGraficos ==
    /\ prog = "main"
    /\ pc = "exportado"
    /\ resultados' =
          [resultados EXCEPT !.saidas =
              @ \cup {<<"grafico", resultados.analises[n].cenario>> :
                          n \in 1..Len(resultados.analises)}]
    /\ pc' = "fim"
    /\ UNCHANGED <<prog, params, status, sol, aloc, rede, excedente,
                   modelos, excecao, laco>>

NextMain ==
    \/ MainCenario1
    \/ MainCenario2
    \/ MainCenario3
    \/ ExportarResultados
    \/ PlotarGraficos

SpecMain == InitMain /\ [][NextMain]_vars

(***************************************************************************)
(* analise_sensibilidade(config, data, param, values, parent_run_id),      *)
(* called after a main run that ended Optimal.  params carries the         *)
(* arguments; config is the caller's dictionary, changed in place.         *)
(***************************************************************************)
\* the sweeps: the call of resolver_e_salvar (tariff r over 0.80, 0.85,
\* 0.90) and a sweep of the minimum generation share alpha
\* the list of the sweep resolver_e_salvar starts: [0.80, 0.85, 0.90] over 'r'
ValoresTarifa == <<Rat(80, 100), Rat(85, 100), Rat(90, 100)>>

\* run_sensitivity=True, the default of resolver_e_salvar
run_sensitivity_padrao == TRUE

\* run_sensitivity=False, what analise_sensibilidade passes for a candidate
run_sensitivity_candidato == FALSE

Varreduras ==
    {[param |-> "r", values |-> ValoresTarifa],
     [param |-> "alpha", values |-> <<Rat(50, 100), Rat(80, 100), RInt(1)>>]}

InitSensibilidade ==
    /\ prog = "consorcio"
    /\ pc = "inicio"
    /\ params \in {[config |-> c, data |-> d, param |-> s.param, values |-> s.values] :
                      c \in ConfigConsorcio, d \in DadosConsorcio, s \in Varreduras}
    /\ status = "nao_resolvido"
    /\ sol = Nenhum
    /\ aloc = Nenhum
    /\ rede = Nenhum
    /\ excedente = Nenhum
    /\ resultados = Nenhum
    /\ modelos = <<>>
    /\ excecao = Nenhum
    /\ laco = Nenhum

\* resultados = [] and original = config[param]
AnaliseInicio ==
    /\ prog = "consorcio"
    /\ pc = "resolver_e_salvar"
    /\ status = "Optimal"
    /\ "param" \in DOMAIN params
    /\ pc' = "analise_sensibilidade"
    /\ laco' = [k |-> 1, original |-> params.config[params.param], resultados |-> <<>>,
                acima |-> Nenhum]
    /\ UNCHANGED <<prog, params, status, sol, aloc, rede, excedente, resultados,
                   modelos, excecao>>

\* the entry appended for a candidate whose run ended Optimal
EntradaSensibilidade(v, res) ==
    [value |-> v, economia |-> RSum(res.totais.economia, 0, NumMeses - 1)]

\* config after line 591 was passed over: the candidate stays in config[param]
ConfigSemRestauro(cfg, param, original) == cfg

\* config[param] = original, the last statement of a turn of the loop
ConfigRestaurada(cfg, param, original) == [cfg EXCEPT ![param] = original]

\* one turn of the loop over values: the candidate equal to config[param] is
\* passed over; otherwise config[param] is set, a model is built,
\* resolver_e_salvar runs on it and config[param] is set back.  An exception
\* resolver_e_salvar raises is not caught here: it leaves the loop before
\* config[param] is set back.  Were the candidate's run given run_sensitivity,
\* its Optimal branch would start a sweep of its own over 'r' before returning:
\* the turn is then suspended in laco.acima until that sweep returns.
AnalisePasso ==
    /\ prog = "consorcio"
    /\ pc = "analise_sensibilidade"
    /\ laco.k <= Len(params.values)
    /\ \E v \in {params.values[laco.k]} :
          IF v = params.config[params.param]
          THEN /\ laco' = [laco EXCEPT !.k = @ + 1]
               /\ UNCHANGED <<pc, params, status, sol, resultados, modelos, excecao>>
          ELSE \E cfg \in {[params.config EXCEPT ![params.param] = v]} :
               \E e \in ExecucoesConsorcio(cfg, params.data) :
                  /\ modelos' = ModeloResolvido(modelos, cfg)
                  /\ status' = e.status
                  /\ sol' = e.sol
                  /\ IF e.fim = "retorno" /\ e.status = "Optimal"
                        /\ run_sensitivity_candidato
                     THEN /\ params' = [params EXCEPT !.config = cfg, !.param = "r",
                                                      !.values = ValoresTarifa]
                          /\ resultados' = e.resultados
                          /\ laco' = [k |-> 1, original |-> cfg.r, resultados |-> <<>>,
                                      acima |-> [laco |-> laco, param |-> params.param,
                                                 values |-> params.values,
                                                 res |-> e.resultados]]
                          /\ UNCHANGED <<pc, excecao>>
                     ELSE
                     IF e.fim = "retorno"
                     THEN /\ params' = [params EXCEPT !.config =
                                 ConfigRestaurada(cfg, params.param, laco.original)]
                          /\ resultados' = e.resultados
                          /\ laco' = [laco EXCEPT
                                 !.k = @ + 1,
                                 !.resultados =
                                     IF e.status = "Optimal"
                                     THEN Append(@, EntradaSensibilidade(v, e.resultados))
                                     ELSE @]
                          /\ UNCHANGED <<pc, excecao>>
                     ELSE /\ params' = [params EXCEPT !.config = cfg]
                          /\ pc' = "excecao"
                          /\ excecao' = [tipo |-> "Exception", em |-> e.em]
                          /\ UNCHANGED <<resultados, laco>>
    /\ UNCHANGED <<prog, aloc, rede, excedente>>

\* after the last candidate: return resultados, to the caller or to the
\* suspended turn of the sweep above, which then finishes (lines 586-591)
AnaliseFim ==
    /\ prog = "consorcio"
    /\ pc = "analise_sensibilidade"
    /\ laco.k > Len(params.values)
    /\ IF laco.acima = Nenhum
       THEN /\ pc' = "retorno_analise"
            /\ UNCHANGED <<params, resultados, laco>>
       ELSE /\ pc' = pc
            /\ resultados' = laco.acima.res
            /\ laco' = [laco.acima.laco EXCEPT
                   !.k = @ + 1,
                   !.resultados =
                       Append(@, EntradaSensibilidade(params.config[laco.acima.param],
                                                      laco.acima.res))]
            /\ params' = [params EXCEPT
                   !.param = laco.acima.param,
                   !.values = laco.acima.values,
                   !.config = ConfigRestaurada(params.config, laco.acima.param,
                                               laco.acima.laco.original)]
    /\ UNCHANGED <<prog, status, sol, aloc, rede, excedente, modelos, excecao>>

NextSensibilidade ==
    \/ ResolverESalvar
    \/ AnaliseInicio
    \/ AnalisePasso
    \/ AnaliseFim

SpecSensibilidade == InitSensibilidade /\ [][NextSensibilidade]_vars

(***************************************************************************)
(* principal: config.json is loaded, its keys are checked, the data are    *)
(* generated, the model is built and resolver_e_salvar runs once.          *)
(***************************************************************************)
chaves_obrigatorias ==
    <<"N", "M", "B", "r", "r_rede", "gamma", "taxa_disponibilidade",
      "custo_garantia_por_kw", "alpha", "max_units", "seed">>

\* the dictionaries json.load may return: any of the keys may be absent
ConfigsCarregadas ==
    {[k \in S |-> IF k = "seed" THEN 42 ELSE c[k]] :
        S \in SUBSET {chaves_obrigatorias[n] : n \in 1..Len(chaves_obrigatorias)},
        c \in ConfigConsorcio}

\* only the first absent key, as a check that stops at the first would give
PrimeiraChaveFaltando(config) ==
    LET falta(k) == k \notin DOMAIN config
        todas == SelectSeq(chaves_obrigatorias, falta)
    IN  IF todas = <<>> THEN <<>> ELSE <<todas[1]>>

\* [chave for chave in chaves_obrigatorias if chave not in config]
chaves_faltando(config) ==
    LET falta(k) == k \notin DOMAIN config
    IN  SelectSeq(chaves_obrigatorias, falta)

InitPrincipal ==
    /\ prog = "consorcio"
    /\ pc = "principal"
    /\ params = Nenhum
    /\ status = "nao_resolvido"
    /\ sol = Nenhum
    /\ aloc = Nenhum
    /\ rede = Nenhum
    /\ excedente = Nenhum
    /\ resultados = Nenhum
    /\ modelos = <<>>
    /\ excecao = Nenhum
    /\ laco = Nenhum

\* open('config.json') and json.load; an IOError is raised again
CarregarConfig ==
    /\ prog = "consorcio"
    /\ pc = "principal"
    /\ \/ /\ pc' = "excecao"
          /\ excecao' = [tipo |-> "IOError", em |-> <<"config.json">>]
          /\ params' = params
       \/ \E config \in ConfigsCarregadas :
             /\ params' = [config |-> config]
             /\ pc' = "config_carregada"
             /\ excecao' = excecao
    /\ UNCHANGED <<prog, status, sol, aloc, rede, excedente, resultados, modelos, laco>>

\* the check of the required keys: KeyError with the list of the absent ones
ValidarChaves ==
    /\ prog = "consorcio"
    /\ pc = "config_carregada"
    /\ \E faltando \in {chaves_faltando(params.config)} :
          IF faltando # <<>>
          THEN /\ pc' = "excecao"
               /\ excecao' = [tipo |-> "KeyError", em |-> faltando]
          ELSE /\ pc' = "config_valida"
               /\ excecao' = excecao
    /\ UNCHANGED <<prog, params, status, sol, aloc, rede, excedente, resultados,
                   modelos, laco>>

\* data = gerar_dados_solares(config['N'], config['M'], config['seed'])
GerarDados ==
    /\ prog = "consorcio"
    /\ pc = "config_valida"
    /\ \E data \in DadosConsorcio :
          params' = [config |-> params.config, data |-> data]
    /\ pc' = "inicio"
    /\ UNCHANGED <<prog, status, sol, aloc, rede, excedente, resultados,
                   modelos, excecao, laco>>

NextPrincipal ==
    \/ CarregarConfig
    \/ ValidarChaves
    \/ GerarDados
    \/ ResolverESalvar

SpecPrincipal == InitPrincipal /\ [][NextPrincipal]_vars

(***************************************************************************)
(* The optimisation scenarios together with app2, for the properties that  *)
(* speak of both.                                                          *)
(***************************************************************************)
SpecInjecao == (InitOtim \/ InitApp2) /\ [][NextOtim \/ NextApp2]_vars

\* app.py and app2.py together: the two programs whose solves may fail
SpecFalhas == (InitConsorcio \/ InitApp2) /\ [][NextConsorcio \/ NextApp2]_vars

(***************************************************************************)
(* Properties.                                                             *)
(***************************************************************************)
RAbs(a) == IF RLt(a, Zero) THEN RSub(Zero, a) ELSE a

\* the total of row i of a result matrix over the hours
TotalHoras(m, i) == SomaHoras(params, m[i])

\* the assignments of the consortium model a state speaks of: before the solve,
\* every assignment that satisfies the constraints; after an Optimal solve, the
\* one the solver returned
AtribuicoesConsorcio ==
    IF prog = "consorcio" /\ pc = "inicio"
    THEN ViaveisConsorcio(params.config, params.data)
    ELSE IF prog = "consorcio" /\ status = "Optimal" THEN {sol} ELSE {}

\* C1: in every assignment that satisfies the constraints of
\* configurar_modelo_solar, for every residence i: C[i,0] = 0; C[i,t+1] = C[i,t]
\* + c[i,t] - u[i,t] for every month t; C[i,t] >= 0 for every t up to the end of
\* the horizon; and u[i,t] <= C[i,t] for every month t.
EstoqueDeCreditos ==
    \A g \in AtribuicoesConsorcio : \A i \in Residencias :
        /\ g.C[0][i] = Zero
        /\ \A t \in Meses :
              /\ g.C[t + 1][i] = RSub(RAdd(g.C[t][i], g.mes[t][i].c), g.mes[t][i].u)
              /\ RLeq(g.mes[t][i].u, g.C[t][i])
        /\ \A t \in 0..NumMeses : RLeq(Zero, g.C[t][i])

\* C1 witness: the solver returned an assignment in which a residence uses
\* credits in a month, out of a positive stock built in an earlier month.
EstoqueUsado ==
    /\ prog = "consorcio"
    /\ status = "Optimal"
    /\ \E i \in Residencias : \E t \in Meses :
          /\ RLt(Zero, sol.mes[t][i].u)
          /\ RLt(Zero, sol.C[t][i])
          /\ RLt(sol.C[t + 1][i], sol.C[t][i])

\* C2: in every assignment that satisfies the constraints of the consortium
\* model, and in the results resolver_e_salvar extracts, for every residence i
\* and month t: E_cons[i][t] = m[i,t] + u[i,t] + r[i,t], all three non-negative.
BalancoConsorcio ==
    /\ \A g \in AtribuicoesConsorcio : \A i \in Residencias : \A t \in Meses :
          /\ params.data.E_cons[i][t]
                 = RAdd(RAdd(g.mes[t][i].m, g.mes[t][i].u), g.mes[t][i].r)
          /\ RLeq(Zero, g.mes[t][i].m)
          /\ RLeq(Zero, g.mes[t][i].u)
          /\ RLeq(Zero, g.mes[t][i].r)
    /\ (prog = "consorcio" /\ pc = "resolver_e_salvar" /\ status = "Optimal") =>
          \A i \in Residencias : \A t \in Meses :
              /\ resultados.residencias[i].consumo[t]
                     = RAdd(RAdd(resultados.residencias[i].energia_solar[t],
                                 resultados.residencias[i].creditos_usados[t]),
                            resultados.residencias[i].energia_rede[t])
              /\ RLeq(Zero, resultados.residencias[i].energia_solar[t])
              /\ RLeq(Zero, resultados.residencias[i].creditos_usados[t])
              /\ RLeq(Zero, resultados.residencias[i].energia_rede[t])

\* C2 witness: the extracted results hold a residence and month covered by solar
\* energy and used credits together, and one that draws from the grid.
BalancoComTresFontes ==
    /\ prog = "consorcio"
    /\ pc = "resolver_e_salvar"
    /\ status = "Optimal"
    /\ \E i \in Residencias : \E t \in Meses :
          /\ RLt(Zero, resultados.residencias[i].energia_solar[t])
          /\ RLt(Zero, resultados.residencias[i].creditos_usados[t])
    /\ \E i \in Residencias : \E t \in Meses :
          RLt(Zero, resultados.residencias[i].energia_rede[t])

\* C6: in every assignment that satisfies the constraints of the consortium
\* model, for every month t, the sum over the residences of m[i,t] + c[i,t] is at
\* most E_eff[t], and E_eff[t] is the sum over the installed units j of
\* (1 - l[j]) * k[j][t] * P[j].
CapacidadeConsorcio ==
    \A g \in AtribuicoesConsorcio : \A t \in Meses :
        /\ RLeq(TotalRes([i \in Residencias |-> RAdd(g.mes[t][i].m, g.mes[t][i].c)]),
                g.E_eff[t])
        /\ g.E_eff[t]
               = RSum([j \in Unidades |->
                          IF g.x[j] = 1
                          THEN RMul(RMul(RSub(RInt(1), params.data.l[j]), params.data.k[j][t]),
                                    params.data.P[j])
                          ELSE Zero], 0, NumUnidades - 1)

\* C6 witness: the solver returned an assignment with a unit installed and a
\* month in which credits are generated on top of the energy used directly.
CapacidadeComCreditos ==
    /\ prog = "consorcio"
    /\ status = "Optimal"
    /\ \E t \in Meses :
          /\ RLt(Zero, sol.E_eff[t])
          /\ RLt(Zero, TotalRes([i \in Residencias |-> sol.mes[t][i].c]))
          /\ RLt(Zero, TotalRes([i \in Residencias |-> sol.mes[t][i].m]))

\* C3: after cenario_1_proporcional_simples or cenario_1_proporcional, for every
\* residence i and hour t, aloc[i,t] + rede[i,t] = demanda[i,t], also in the
\* hours where the generation is below the total demand.
BalancoProporcional ==
    pc \in {"cenario_1_proporcional_simples", "cenario_1_proporcional"} =>
        \A i \in Res(params) : \A t \in Hrs(params) :
            RAdd(aloc[i][t], rede[i][t]) = params.demanda_residencias[i][t]

\* C3 witness: the simple heuristic has run on an hour with positive generation
\* below the total demand, and a residence got both solar and grid energy.
BalancoProporcionalEscassez ==
    /\ pc = "cenario_1_proporcional_simples"
    /\ \E t \in Hrs(params) :
          /\ RLt(Zero, params.geracao_solar[t])
          /\ RLt(params.geracao_solar[t],
                 SomaRes(params, [i \in Res(params) |-> params.demanda_residencias[i][t]]))
          /\ \E i \in Res(params) : RLt(Zero, aloc[i][t]) /\ RLt(Zero, rede[i][t])

\* C4: after cenario_2_priorizacao_tarifa_social, for every residence i and hour
\* t, aloc[i,t] + rede[i,t] = demanda[i,t], and no residence is allocated more
\* than it demands.
BalancoPriorizacao ==
    pc = "cenario_2_priorizacao_tarifa_social" =>
        \A i \in Res(params) : \A t \in Hrs(params) :
            /\ RAdd(aloc[i][t], rede[i][t]) = params.demanda_residencias[i][t]
            /\ RLeq(aloc[i][t], params.demanda_residencias[i][t])

\* C5: in every solution returned by cenario_2_mono_objetivo and
\* cenario_3_multiobjetivo the grid draw rede[i,t] never exceeds demanda[i,t],
\* and in cenario_2_mono_objetivo it equals the demand the allocation leaves
\* uncovered.
BalancoEstritoOtim ==
    pc \in {"cenario_2_mono_objetivo", "cenario_3_multiobjetivo"} =>
        \A i \in Res(params) : \A t \in Hrs(params) :
            /\ RLeq(rede[i][t], params.demanda_residencias[i][t])
            /\ pc = "cenario_2_mono_objetivo" =>
                  RAdd(aloc[i][t], rede[i][t]) = params.demanda_residencias[i][t]

\* C7: in every solution returned by cenario_2_mono_objetivo and
\* cenario_3_multiobjetivo, excedente[t] <= limite_injecao_rede[t] for every hour
\* t; and in every feasible assignment of criar_modelo_otimizacao, in either
\* mode, the credits of hour t summed over the consumers are at most
\* LIMITE_INJECAO[t].
InjecaoLimitada ==
    /\ pc \in {"cenario_2_mono_objetivo", "cenario_3_multiobjetivo"} =>
          \A t \in Hrs(params) : RLeq(excedente[t], params.limite_injecao_rede[t])
    /\ (prog = "app2" /\ pc = "Sequencial") =>
          \A modo \in {"simples", "prioritario"} : \A s \in ViaveisApp2(params, modo) :
              \A t \in Horas :
                  RLeq(TotalRes([i \in Residencias |-> s[t][i].creditos]),
                       LIMITE_INJECAO(params, t))

\* C7 witness: cenario_2_mono_objetivo returned a solution whose surplus of some
\* hour is exactly the injection limit of that hour.
InjecaoNoLimite ==
    /\ pc = "cenario_2_mono_objetivo"
    /\ \E t \in Hrs(params) :
          /\ RLt(Zero, excedente[t])
          /\ excedente[t] = params.limite_injecao_rede[t]

\* C8: in the result of cenario_sequencial, for every hour t, the energy
\* allocated plus the credits generated, summed over the consumers, is at most
\* GERACAO_SOLAR[t] * (1 - PERDAS_REDE).
CapacidadeSequencial ==
    (prog = "app2" /\ pc = "Sequencial") =>
        \A t \in Horas :
            RLeq(TotalRes([i \in Residencias |->
                     RAdd(resultados.Sequencial.alocacao[i][t],
                          resultados.Sequencial.creditos[i][t])]),
                 RMul(params.GERACAO_SOLAR[t], UmMenosPerdas))

\* C9: in every solution returned by cenario_3_multiobjetivo, every residence i
\* is allocated over the horizon at least demandas_minimas_residencias[i].
AtendimentoMinimoGarantido ==
    pc = "cenario_3_multiobjetivo" =>
        \A i \in Res(params) :
            RLeq(params.demandas_minimas_residencias[i], TotalHoras(aloc, i))

\* the equity bounds of residence i in assignment g
EquidadeDe(p, g, i) ==
    /\ RLeq(RAbs(RSub(AlocadoRes(p, i, g.horas),
                      RDiv(SomaRes(p, [k \in Res(p) |-> AlocadoRes(p, k, g.horas)]),
                           RInt(p.num_residencias)))),
            g.v[i])
    /\ RLeq(RDiv(SomaRes(p, [k \in Res(p) |-> AlocadoRes(p, k, g.horas)]),
                 RInt(10 * p.num_residencias)),
            g.v[i])

\* C10: in every feasible assignment of the cenario_3_multiobjetivo model, and
\* so in every solution it returns, for every residence i the absolute
\* difference between its total allocation and the mean total allocation per
\* residence is at most v[i], and v[i] is at least 10% of that mean.
EquidadeGarantida ==
    /\ (prog = "otimizacao" /\ pc = "inicio") =>
          \A g \in C3_Viaveis(params, TRUE, FALSE) : \A i \in Res(params) :
              EquidadeDe(params, g, i)
    /\ pc = "cenario_3_multiobjetivo" => \A i \in Res(params) : EquidadeDe(params, sol, i)

\* C10 witness: cenario_3_multiobjetivo returned a solution in which the totals
\* of the residences differ and v[i] is exactly the deviation of residence i.
EquidadeComDesvio ==
    /\ pc = "cenario_3_multiobjetivo"
    /\ \E i \in Res(params) :
          /\ RLt(Zero, sol.v[i])
          /\ sol.v[i] = RAbs(RSub(TotalHoras(aloc, i),
                                  RDiv(SomaRes(params, [k \in Res(params) |-> TotalHoras(aloc, k)]),
                                       RInt(params.num_residencias))))

(***************************************************************************)
(* C11: in each of the three heuristic scenarios, an hour whose total      *)
(* demand is zero gives every residence a zero allocation and a zero grid  *)
(* draw whatever the generation, and every entry of the returned aloc,     *)
(* rede and excedente is a number (no nan from a 0 / 0 division).          *)
(***************************************************************************)
EhNumero(v) == v \in Seq(Int) /\ Len(v) = 2 /\ v[2] > 0

DemandaTotalZero(p, t) ==
    SomaRes(p, [i \in Res(p) |-> p.demanda_residencias[i][t]]) = Zero

DemandaZeroSemDivisao ==
    (prog = "heuristica" /\ pc # "inicio") =>
        /\ \A t \in Hrs(params) :
               /\ EhNumero(excedente[t])
               /\ \A i \in Res(params) : EhNumero(aloc[i][t]) /\ EhNumero(rede[i][t])
        /\ \A t \in Hrs(params) :
               DemandaTotalZero(params, t) =>
                   \A i \in Res(params) : aloc[i][t] = Zero /\ rede[i][t] = Zero

\* C11 witness: the weighted heuristic has run on an input with an hour of
\* zero demand and positive generation, next to an hour with demand
DemandaZeroComGeracao ==
    /\ prog = "heuristica"
    /\ pc = "cenario_2_priorizacao_tarifa_social"
    /\ \E t \in Hrs(params) :
           /\ DemandaTotalZero(params, t)
           /\ RLt(Zero, params.geracao_solar[t])
           /\ \A i \in Res(params) : aloc[i][t] = Zero /\ rede[i][t] = Zero
    /\ \E t \in Hrs(params) : \E i \in Res(params) : RLt(Zero, aloc[i][t])

(***************************************************************************)
(* C12: the model of criar_modelo_otimizacao stays satisfiable in an hour  *)
(* of zero generation with positive demand: there, alocacao = 0,           *)
(* creditos = 0 and energia_rede = DEMANDA_HORARIA for every consumer      *)
(* satisfies every constraint written for that hour (capacity, credits,    *)
(* injection limit, balance).                                              *)
(***************************************************************************)
HoraSoRede(p, t) ==
    [i \in Residencias |->
        [alocacao |-> 0, creditos |-> Zero, energia_rede |-> p.DEMANDA_HORARIA[i][t]]]

ZeroGeracaoSatisfazivel ==
    (prog = "app2" /\ pc \in {"PLI_Simples", "PLI_Prioritario", "erro"}) =>
        \A t \in Horas :
            (/\ params.GERACAO_SOLAR[t] = Zero
             /\ \A i \in Residencias : RLt(Zero, params.DEMANDA_HORARIA[i][t]))
            => /\ RestricaoCapacidade(params, t, HoraSoRede(params, t))
               /\ RestricaoInjecao(params, t, HoraSoRede(params, t))
               /\ \A i \in Residencias :
                      /\ RestricaoCreditos(params, i, t, HoraSoRede(params, t)[i])
                      /\ RestricaoBalanco(params, i, t, HoraSoRede(params, t)[i])

(***************************************************************************)
(* C13: in cenario_2_mono_objetivo and cenario_3_multiobjetivo a solve     *)
(* whose status is not Optimal ends in the raised error with no result     *)
(* matrix built (nothing is returned); the matrices aloc, rede and         *)
(* excedente exist only after an Optimal status.                           *)
(***************************************************************************)
FalhaSemMatrizes ==
    (prog = "otimizacao" /\ pc # "inicio") =>
        /\ status # "Optimal" =>
               /\ pc \in {"erro_cenario_2", "erro_cenario_3"}
               /\ aloc = Nenhum /\ rede = Nenhum /\ excedente = Nenhum
        /\ (aloc # Nenhum \/ rede # Nenhum \/ excedente # Nenhum) =>
               /\ status = "Optimal"
               /\ pc \in {"cenario_2_mono_objetivo", "cenario_3_multiobjetivo"}

\* C13 witness: cenario 3 was solved on an infeasible input and raised
FalhaNoCenario3 ==
    /\ prog = "otimizacao"
    /\ pc = "erro_cenario_3"
    /\ status = "Infeasible"
    /\ aloc = Nenhum

(***************************************************************************)
(* C14: resolver_e_salvar does not return after a solve whose status is    *)
(* not Optimal (it raises, and no dictionary with zero-filled totals comes *)
(* back), and executar_cenarios builds the result matrices of a scenario   *)
(* only from a solve whose status is Optimal.                              *)
(***************************************************************************)
NaoOtimoLevantaErro ==
    /\ (prog = "consorcio" /\ pc = "resolver_e_salvar") =>
           /\ status = "Optimal"
           /\ resultados.totais.energia_consumida # ZeroMensal
    /\ (prog = "app2" /\ pc \in {"PLI_Simples", "PLI_Prioritario"}) =>
           status = "Optimal"

(***************************************************************************)
(* C15: in analise_sensibilidade a failure at one candidate (a status that *)
(* is not Optimal, or an exception raised while that candidate is solved   *)
(* or saved) does not end the sweep: whenever the sweep has stopped, by    *)
(* returning or otherwise, every candidate of the list has had its turn.   *)
(***************************************************************************)
VarreduraCompleta ==
    (prog = "consorcio" /\ laco # Nenhum /\ pc \in {"retorno_analise", "excecao"}) =>
        laco.k = Len(params.values) + 1

(***************************************************************************)
(* C16: the list analise_sensibilidade returns holds exactly one entry per *)
(* candidate, in the order of the list: the candidate's value with its     *)
(* summed economia after an Optimal run, an entry for that candidate       *)
(* marking the failure otherwise.                                          *)
(***************************************************************************)
UmaEntradaPorCandidato ==
    (prog = "consorcio" /\ pc = "retorno_analise") =>
        /\ Len(laco.resultados) = Len(params.values)
        /\ \A n \in 1..Len(params.values) :
               n \in DOMAIN laco.resultados =>
                   laco.resultados[n].value = params.values[n]

(***************************************************************************)
(* C18: every model configurar_modelo_solar built has been solved exactly  *)
(* once, the main run's as well as each sweep point's; a sweep point is    *)
(* solved on a model of its own, built after config[param] was set to the  *)
(* candidate, so that the models are as many as the runs and the last one  *)
(* carries the configuration in force.                                     *)
(***************************************************************************)
ModeloNovoPorExecucao ==
    prog = "consorcio" =>
        /\ \A n \in 1..Len(modelos) : modelos[n].resolvido = 1
        /\ pc = "inicio" <=> modelos = <<>>
        /\ (pc = "excecao" /\ modelos # <<>>) =>
               modelos[Len(modelos)].config = params.config
        /\ laco # Nenhum =>
               /\ modelos[1].config[params.param] = laco.original
               /\ Len(modelos) >= 1 + Len(laco.resultados)
               /\ Len(modelos) <= laco.k + (IF pc = "excecao" THEN 1 ELSE 0)
               /\ \A n \in 2..Len(modelos) :
                      /\ \E j \in 1..Len(params.values) :
                             modelos[n].config[params.param] = params.values[j]
                      /\ modelos[n].config[params.param]
                             # modelos[n - 1].config[params.param]

\* C18 witness: the sweep returned after two candidates were each solved on a
\* model of their own, which with the main run's makes three models
TresModelosNaVarredura ==
    /\ prog = "consorcio"
    /\ pc = "retorno_analise"
    /\ Len(modelos) = 3
    /\ Len(laco.resultados) = 2

(***************************************************************************)
(* C17: when required keys are absent from the loaded configuration,       *)
(* principal raises KeyError, the message lists every absent required key  *)
(* (in the order of the required list, none left out), and neither the     *)
(* data generation, nor the model construction, nor the solver has run.    *)
(***************************************************************************)
ChavesAusentes ==
    {k \in {chaves_obrigatorias[n] : n \in 1..Len(chaves_obrigatorias)} :
        k \notin DOMAIN params.config}

ChavesFaltandoEnumeradas ==
    (prog = "consorcio" /\ params # Nenhum
        /\ pc \notin {"principal", "config_carregada"} /\ ChavesAusentes # {}) =>
        /\ pc = "excecao"
        /\ excecao.tipo = "KeyError"
        /\ {excecao.em[n] : n \in 1..Len(excecao.em)} = ChavesAusentes
        /\ Len(excecao.em) = Cardinality(ChavesAusentes)
        /\ "data" \notin DOMAIN params
        /\ modelos = <<>>
        /\ status = "nao_resolvido"
        /\ resultados = Nenhum

\* C17 witness: KeyError raised for a configuration without alpha and seed
DuasChavesFaltando ==
    /\ prog = "consorcio"
    /\ pc = "excecao"
    /\ excecao.tipo = "KeyError"
    /\ excecao.em = <<"alpha", "seed">>

(***************************************************************************)
(* C19: after an Optimal solve the extraction recomputes the balance of    *)
(* every residence and hour and reports, with its indices, each one whose  *)
(* allocation plus grid draw differs from the demand; no solver value is   *)
(* replaced by 0 or clamped without a word.                                *)
(***************************************************************************)
\* the residences and hours the extraction reports as out of balance: the
\* functions return the three matrices only and print totals, never a pair
DivergenciasRelatadas == {}

ReconciliacaoRelatada ==
    (prog = "otimizacao"
        /\ pc \in {"cenario_2_mono_objetivo", "cenario_3_multiobjetivo"}) =>
        \A i \in Res(params) : \A t \in Hrs(params) :
            RAdd(aloc[i][t], rede[i][t]) # params.demanda_residencias[i][t]
                => <<i, t>> \in DivergenciasRelatadas

(***************************************************************************)
(* C20: in main a solver failure of scenario 3 stays within that scenario: *)
(* whenever main has stopped, the allocations of scenarios 1 and 2 and the *)
(* comparison have been exported and their charts drawn.                   *)
(***************************************************************************)
Cenario3FalhaConfinada ==
    (prog = "main" /\ pc \in {"fim", "excecao"}) =>
        /\ {<<"comparacao_todos_cenarios">>, <<"alocacao_cenario", 1>>,
            <<"alocacao_cenario", 2>>} \subseteq resultados.saidas
        /\ {<<"grafico", "Cenario 1">>, <<"grafico", "Cenario 2">>}
               \subseteq resultados.saidas

\* total demand of hour t: np.sum(demanda_residencias[:, t])
DemandaDaHora(t) ==
    SomaRes(params, [i \in Res(params) |-> params.demanda_residencias[i][t]])

\* C21: after cenario_1_proporcional_simples, in every hour whose generation is
\* at least the total demand and whose total demand is positive, every residence
\* is allocated exactly its demand, draws nothing from the grid, and the surplus
\* recorded for the hour is the generation minus the total demand.
FarturaAtendeTudo ==
    pc = "cenario_1_proporcional_simples" =>
        \A t \in Hrs(params) :
            (RLt(Zero, DemandaDaHora(t)) /\ RLeq(DemandaDaHora(t), params.geracao_solar[t])) =>
                /\ \A i \in Res(params) :
                      /\ aloc[i][t] = params.demanda_residencias[i][t]
                      /\ rede[i][t] = Zero
                /\ excedente[t] = RSub(params.geracao_solar[t], DemandaDaHora(t))

\* C21 witness: the simple heuristic has run on an hour in which both residences
\* demand 2 and the generation is 5, and the surplus recorded is 1.
FarturaComSobra ==
    /\ pc = "cenario_1_proporcional_simples"
    /\ \E t \in Hrs(params) :
          /\ \A i \in Res(params) : params.demanda_residencias[i][t] = RInt(2)
          /\ params.geracao_solar[t] = RInt(5)
          /\ excedente[t] = RInt(1)
          /\ \A i \in Res(params) : aloc[i][t] = RInt(2)

\* the solar energy available in hour t to the heuristic that has run
EnergiaDisponivel(t) ==
    IF pc = "cenario_1_proporcional"
    THEN RMul(params.geracao_solar[t], params.eficiencia_rede[t])
    ELSE params.geracao_solar[t]

\* C22: after any of the three heuristics, for every hour the energy allocated
\* to the residences plus the surplus recorded equals the solar energy available
\* in the hour, also in the hours whose total demand is zero.
ExcedenteRegistrado ==
    pc \in {"cenario_1_proporcional_simples", "cenario_1_proporcional",
            "cenario_2_priorizacao_tarifa_social"} =>
        \A t \in Hrs(params) :
            RAdd(SomaRes(params, [i \in Res(params) |-> aloc[i][t]]), excedente[t])
                = EnergiaDisponivel(t)

(***************************************************************************)
(* cenario_3_multiobjetivo over three hours, with an injection limit that  *)
(* lets one hour generate credits for the two hours after it.              *)
(***************************************************************************)
NumHorasCreditos == 3

\* demand of the first hour, of the middle hours and of the last hour
PerfisDemanda ==
    {<<Zero, RInt(1), Rat(1, 2)>>, <<Zero, RInt(1), RInt(1)>>}

ParamsCreditos ==
    [num_residencias : {NumRes},
     num_horas : {NumHorasCreditos},
     demanda_residencias :
         {[i \in Residencias |-> [t \in 0..(NumHorasCreditos - 1) |->
              IF t = 0 THEN d[1] ELSE IF t = NumHorasCreditos - 1 THEN d[3] ELSE d[2]]] :
             d \in PerfisDemanda},
     geracao_solar :
         {[t \in 0..(NumHorasCreditos - 1) |-> IF t = 0 THEN RInt(5) ELSE RInt(g[t])] :
             g \in [1..(NumHorasCreditos - 1) -> {0, 2}]},
     eficiencia_rede : {[t \in 0..(NumHorasCreditos - 1) |-> Rat(95, 100)]},
     pesos_prioridade_c2 : {[i \in Residencias |-> IF i % 2 = 0 THEN RInt(2) ELSE RInt(1)]},
     demanda_base_ajustada : {RInt(1)},
     demandas_minimas_residencias : {[i \in Residencias |-> RInt(1)]},
     limite_fluxo_hora : {RInt(3)},
     limite_injecao_rede : {[t \in 0..(NumHorasCreditos - 1) |-> RInt(l)] : l \in {1, 2}},
     tarifas_residencias :
         {[i \in Residencias |-> [t \in 0..(NumHorasCreditos - 1) |->
              IF i % 2 = 0 THEN RInt(3) ELSE RInt(5)]]}]

InitCreditos ==
    /\ prog = "otimizacao"
    /\ pc = "inicio"
    /\ params \in ParamsCreditos
    /\ status = "nao_resolvido"
    /\ sol = Nenhum
    /\ aloc = Nenhum
    /\ rede = Nenhum
    /\ excedente = Nenhum
    /\ resultados = Nenhum
    /\ modelos = <<>>
    /\ excecao = Nenhum
    /\ laco = Nenhum

SpecCreditos == InitCreditos /\ [][Cenario3Multiobjetivo]_vars

\* demand of residence i in hour t covered neither by allocation nor by the grid
Descoberto(i, t) ==
    RMax(Zero, RSub(params.demanda_residencias[i][t], RAdd(aloc[i][t], rede[i][t])))

ConfigDuranteCandidato ==
    (prog = "consorcio" /\ laco # Nenhum) =>
        /\ \A n \in 2..Len(modelos) :
              \E j \in 1..Len(params.values) :
                  modelos[n].config =
                      [modelos[1].config EXCEPT ![params.param] = params.values[j]]
        /\ (pc = "analise_sensibilidade" /\ Len(modelos) >= 2 /\ status = "Optimal") =>
              /\ resultados.tarifa = modelos[Len(modelos)].config.r
              /\ \A t \in Meses :
                    resultados.totais.economia[t] =
                        RSum([i \in Residencias |->
                                 Economia(modelos[Len(modelos)].config, sol.mes[t][i])],
                             0, NumRes - 1)
              /\ laco.resultados[Len(laco.resultados)] =
                    [value |-> modelos[Len(modelos)].config[params.param],
                     economia |-> RSum(resultados.totais.economia, 0, NumMeses - 1)]
        /\ pc \in {"analise_sensibilidade", "retorno_analise"} =>
              params.config = modelos[1].config

\* C24 witness: a sweep over r returned after its last candidate ran Optimal
\* under a tariff other than the one of the call, which config holds again.
ConfigDevolvida ==
    /\ prog = "consorcio"
    /\ pc = "retorno_analise"
    /\ params.param = "r"
    /\ status = "Optimal"
    /\ Len(modelos) = 3
    /\ resultados.tarifa # params.config.r
    /\ params.config.r = laco.original

\* C25: when the run of a sweep candidate raises, the exception reaches the
\* caller with config[param] holding the value it had when the sweep was called.
ConfigIntactaNaExcecao ==
    (prog = "consorcio" /\ laco # Nenhum /\ pc = "excecao") =>
        params.config[params.param] = laco.original

\* C26: a sweep never starts another sweep, the candidates' runs being made
\* without run_sensitivity; the runs of one call of resolver_e_salvar with
\* run_sensitivity are at most 1 + len(values); and the sweep terminates: each
\* of its steps either ends it, by a return or an exception, or moves on to
\* the next candidate of a list it never goes beyond.
VarreduraTerminaSemAninhar ==
    /\ [](laco # Nenhum =>
             /\ laco.acima = Nenhum
             /\ ~run_sensitivity_candidato
             /\ laco.k <= Len(params.values) + 1
             /\ Len(modelos) <= 1 + Len(params.values))
    /\ [][pc = "analise_sensibilidade" =>
             \/ pc' \in {"retorno_analise", "excecao"}
             \/ /\ pc' = pc
                /\ laco'.k = laco.k + 1
                /\ params'.values = params.values]_vars

\* C26 witness: a sweep returned after every candidate had its turn, with two
\* candidates solved next to the main run and no sweep started below it.
VarreduraTerminada ==
    /\ prog = "consorcio"
    /\ pc = "retorno_analise"
    /\ laco.acima = Nenhum
    /\ laco.k = Len(params.values) + 1
    /\ Len(modelos) = 3

\* C27: in every assignment that satisfies the constraints of the consortium
\* model, for every residence i and month t the credits used in the months
\* 0..t are at most the credits generated in the months 0..t-1; in particular
\* nothing is used in month 0.
CreditoSoDepoisDeGerado ==
    \A g \in AtribuicoesConsorcio : \A i \in Residencias :
        /\ g.mes[0][i].u = Zero
        /\ \A t \in Meses :
              RLeq(RSum([s \in 0..t |-> g.mes[s][i].u], 0, t),
                   RSum([s \in 0..(t - 1) |-> g.mes[s][i].c], 0, t - 1))

\* C27 witness: the solver returned an assignment in which a residence
\* generates credits in one month, having used none so far, and uses credits
\* in the month after it.
CreditoUsadoNoMesSeguinte ==
    /\ prog = "consorcio"
    /\ pc = "resolver_e_salvar"
    /\ status = "Optimal"
    /\ \E i \in Residencias : \E t \in Meses :
          /\ t + 1 \in Meses
          /\ \A s \in 0..t : sol.mes[s][i].u = Zero
          /\ RLt(Zero, sol.mes[t][i].c)
          /\ RLt(Zero, sol.mes[t + 1][i].u)

\* C28: after cenario_1_proporcional_simples or
\* cenario_2_priorizacao_tarifa_social, in every hour with positive total demand
\* the energy allocated to the residences adds up to the smaller of the hour's
\* generation and the hour's total demand.
TotalAlocadoLimitado ==
    pc \in {"cenario_1_proporcional_simples", "cenario_2_priorizacao_tarifa_social"} =>
        \A t \in Hrs(params) :
            RLt(Zero, DemandaDaHora(t)) =>
                SomaRes(params, [i \in Res(params) |-> aloc[i][t]])
                    = RMin(params.geracao_solar[t], DemandaDaHora(t))

\* C28 witness: the priority heuristic has run on an hour whose generation is
\* positive and below the total demand, and on an hour whose generation is
\* above a positive total demand.
TotalAlocadoNosDoisCasos ==
    /\ pc = "cenario_2_priorizacao_tarifa_social"
    /\ \E t \in Hrs(params) :
          /\ RLt(Zero, params.geracao_solar[t])
          /\ RLt(params.geracao_solar[t], DemandaDaHora(t))
          /\ SomaRes(params, [i \in Res(params) |-> aloc[i][t]]) = params.geracao_solar[t]
    /\ \E t \in Hrs(params) :
          /\ RLt(Zero, DemandaDaHora(t))
          /\ RLt(DemandaDaHora(t), params.geracao_solar[t])
          /\ SomaRes(params, [i \in Res(params) |-> aloc[i][t]]) = DemandaDaHora(t)

\* C29: in every solution cenario_3_multiobjetivo returns, the energy allocated
\* to a residence in an hour is at most the residence's demand in that hour,
\* the fraction x[i,t] lying between 0 and 1.
AlocacaoAteADemanda ==
    pc = "cenario_3_multiobjetivo" =>
        \A i \in Res(params) : \A t \in Hrs(params) :
            /\ RLeq(aloc[i][t], params.demanda_residencias[i][t])
            /\ RLeq(Zero, sol.horas[t].cel[i].x)
            /\ RLeq(sol.horas[t].cel[i].x, RInt(1))

\* C30: an assignment of the consortium model that satisfies the constraints,
\* such as the one an Optimal solve returns, gives every residence its fraction
\* of the effective generation: E_alloc[i,t] = a[i,t] * E_eff[t] = E_eff[t] / N
\* for every residence i and month t.
AlocacaoPelaFracao ==
    (prog = "consorcio" /\ pc = "resolver_e_salvar" /\ status = "Optimal") =>
        \A i \in Residencias : \A t \in Meses :
            /\ sol.mes[t][i].E_alloc = RMul(sol.mes[t][i].a, sol.E_eff[t])
            /\ sol.mes[t][i].E_alloc = RDiv(sol.E_eff[t], RInt(params.config.N))

====
